---- MODULE Spec2Model ----
(***************************************************************************)
(* Model of the Worksection request transport and authentication layer     *)
(* (src/src/worksectionClient.ts, first class definition of the file) and  *)
(* of the handlers of the tool layer that feed it (src/src/index.ts).      *)
(*                                                                         *)
(* A JavaScript string is a sequence of chunks (TLA+ strings): a chunk is  *)
(* either a word of characters that url-encoding leaves alone or a single  *)
(* special character.  The text of the string is the concatenation of its  *)
(* chunks.  A Buffer is a sequence of bytes.  An optional value is None or *)
(* Some(v).                                                                *)
(*                                                                         *)
(* Environment assumption: a fetch either rejects (network failure) or     *)
(* resolves with a response whose body can be read to its end.             *)
(***************************************************************************)
EXTENDS Integers, Sequences, FiniteSets, TLC

VARIABLES
    config,     \* the configuration the client was constructed with
    pc,         \* where the call in progress stands: idle, resolve, download, sent, done
    inv,        \* the arguments of the call in progress
    idx,        \* prepareAttachments: the position of its loop in the list
    payloads,   \* prepareAttachments: the payloads resolved so far
    http,       \* the requests the call in progress has handed to fetch, in order
    fetched,    \* the outcomes of its attachment downloads, in order
    received,   \* the outcome of its fetch of the API, once there is one
    outcome,    \* what call returned or threw
    prev,       \* what the last earlier call that reached the API was given and sent
    parked,     \* the other invocations of call in flight, each with its locals
    tool,       \* the tool handler in progress
    result,     \* the result of the tool handler
    boot        \* the process's startup: its environment and how far main has come

vars == <<config, pc, inv, idx, payloads, http, fetched, received, outcome,
          prev, parked, tool, result, boot>>

\* ------------------------------------------------------------------------
\* Bounds of the model
\* ------------------------------------------------------------------------

\* longest attachments list handed to one call
MaxAttachments == 2

\* most invocations of call in flight at once
MaxInFlight == 2

\* ------------------------------------------------------------------------
\* Optional values, strings
\* ------------------------------------------------------------------------

None == [some |-> FALSE]

Some(v) == [some |-> TRUE, v |-> v]

RECURSIVE Cat(_)
\* the text of a chunk sequence
Cat(s) == IF s = <<>> THEN "" ELSE Head(s) \o Cat(Tail(s))

RECURSIVE Flatten(_)
\* concatenation of a sequence of sequences
Flatten(ss) == IF ss = <<>> THEN <<>> ELSE Head(ss) \o Flatten(Tail(ss))

\* s occurs in t as a contiguous run of chunks
Contains(t, s) ==
    \E i \in 1..(Len(t) - Len(s) + 1) : SubSeq(t, i, i + Len(s) - 1) = s

Front(s) == SubSeq(s, 1, Len(s) - 1)

Last(s) == s[Len(s)]

\* ------------------------------------------------------------------------
\* application/x-www-form-urlencoded, as URLSearchParams writes and reads it
\* ------------------------------------------------------------------------

\* the single-character chunks the serializer does not leave alone
SpecialChars == {"&", "=", " ", "[", "]", "+", "%", ",", "/", ":", "@"}

PercentCode(c) ==
    CASE c = "&" -> "%26"
      [] c = "=" -> "%3D"
      [] c = " " -> "+"
      [] c = "[" -> "%5B"
      [] c = "]" -> "%5D"
      [] c = "+" -> "%2B"
      [] c = "%" -> "%25"
      [] c = "," -> "%2C"
      [] c = "/" -> "%2F"
      [] c = ":" -> "%3A"
      [] c = "@" -> "%40"

EncodeChunk(c) == IF c \in SpecialChars THEN PercentCode(c) ELSE c

DecodeChunk(e) ==
    IF \E c \in SpecialChars : PercentCode(c) = e
    THEN CHOOSE c \in SpecialChars : PercentCode(c) = e
    ELSE e

UrlEncode(s) == [i \in 1..Len(s) |-> EncodeChunk(s[i])]

UrlDecode(s) == [i \in 1..Len(s) |-> DecodeChunk(s[i])]

RECURSIVE SearchParamsToString(_)
\* URLSearchParams.prototype.toString of a list of <<name, value>> pairs
SearchParamsToString(pairs) ==
    IF pairs = <<>> THEN <<>>
    ELSE LET p == Head(pairs)
             one == UrlEncode(p[1]) \o <<"=">> \o UrlEncode(p[2])
         IN  IF Len(pairs) = 1 THEN one
             ELSE one \o <<"&">> \o SearchParamsToString(Tail(pairs))

\* position of the first chunk c in s, 0 when there is none
IndexOf(s, c) ==
    IF \E i \in 1..Len(s) : s[i] = c
    THEN CHOOSE i \in 1..Len(s) : s[i] = c /\ \A j \in 1..(i - 1) : s[j] # c
    ELSE 0

RECURSIVE SplitOn(_, _)
\* the runs of s between the chunks c
SplitOn(s, c) ==
    LET i == IndexOf(s, c)
    IN  IF i = 0 THEN <<s>>
        ELSE <<SubSeq(s, 1, i - 1)>> \o SplitOn(SubSeq(s, i + 1, Len(s)), c)

\* what a receiver reads back from a url-encoded string: the <<name, value>>
\* pairs, names and values percent-decoded
ParseUrlEncoded(text) ==
    IF text = <<>> THEN <<>>
    ELSE LET runs == SplitOn(text, "&")
             pair(r) == LET i == IndexOf(r, "=")
                        IN  IF i = 0 THEN <<UrlDecode(r), <<>>>>
                            ELSE <<UrlDecode(SubSeq(r, 1, i - 1)),
                                   UrlDecode(SubSeq(r, i + 1, Len(r)))>>
         IN  [k \in 1..Len(runs) |-> pair(runs[k])]

\* ------------------------------------------------------------------------
\* The digest: an ideal hash, written as the text it was computed over
\* ------------------------------------------------------------------------

Md5Hex(text) == "md5(" \o text \o ")"

\* ------------------------------------------------------------------------
\* Parameter values and the canonical query (buildParamState)
\* ------------------------------------------------------------------------

StrV(s) == [t |-> "string", v |-> s]

NumV(n) == [t |-> "number", v |-> n]

BoolV(b) == [t |-> "boolean", v |-> b]

ListV(items) == [t |-> "array", v |-> items]

NullV == [t |-> "null"]

UndefinedV == [t |-> "undefined"]

\* coerceToString without its boolean case: String(value) for every primitive
coerceToStringPlain(value) ==
    IF value.t = "boolean" THEN (IF value.v THEN <<"true">> ELSE <<"false">>)
    ELSE IF value.t = "number" THEN <<ToString(value.v)>>
    ELSE value.v

coerceToString(value) ==
    IF value.t = "boolean" THEN (IF value.v THEN <<"1">> ELSE <<"0">>)
    ELSE IF value.t = "number" THEN <<ToString(value.v)>>
    ELSE value.v

RECURSIVE appendItems(_, _, _, _)
\* value.forEach((item, index) => appendParam(`${key}[${index}]`, item)),
\* from element number index on; elements of a list are primitives
appendItems(encoded, key, items, index) ==
    IF index >= Len(items) THEN encoded
    ELSE LET item == items[index + 1]
             name == key \o <<"[", ToString(index), "]">>
             next == IF item.t \in {"undefined", "null"} THEN encoded
                     ELSE Append(encoded, <<name, coerceToString(item)>>)
         IN  appendItems(next, key, items, index + 1)

\* appendParam with a list sent as one comma-joined value
appendParamJoined(encoded, key, value) ==
    IF value.t \in {"undefined", "null"} THEN encoded
    ELSE IF value.t = "array"
    THEN Append(encoded,
                <<key, Flatten([i \in 1..Len(value.v) |->
                           (IF i = 1 THEN <<>> ELSE <<",">>)
                           \o coerceToString(value.v[i])])>>)
    ELSE Append(encoded, <<key, coerceToString(value)>>)

appendParam(encoded, key, value) ==
    IF value.t \in {"undefined", "null"} THEN encoded
    ELSE IF value.t = "array" THEN appendItems(encoded, key, value.v, 0)
    ELSE Append(encoded, <<key, coerceToString(value)>>)

\* a key that is a canonical array index ("0", "1", ...)
IsArrayIndex(key) == Len(key) = 1 /\ \E n \in 0..20 : ToString(n) = key[1]

ArrayIndexOf(key) == CHOOSE n \in 0..20 : ToString(n) = key[1]

\* the own keys of an object in enumeration order: array indices ascending,
\* then the other keys in insertion order.  An object is the sequence of its
\* [key, value] entries in insertion order.
ObjectEntries(obj) ==
    LET ixs == SelectSeq(obj, LAMBDA e : IsArrayIndex(e.key))
        strs == SelectSeq(obj, LAMBDA e : ~IsArrayIndex(e.key))
    IN  SortSeq(ixs, LAMBDA a, b : ArrayIndexOf(a.key) < ArrayIndexOf(b.key))
        \o strs

\* { ...(params ?? {}) }
prepareParams(params) == IF params.some THEN ObjectEntries(params.v) ELSE <<>>

RECURSIVE appendEntries(_, _)
appendEntries(encoded, entries) ==
    IF entries = <<>> THEN encoded
    ELSE appendEntries(appendParam(encoded, Head(entries).key, Head(entries).value),
                       Tail(entries))

\* buildParamState with raw joined from the pairs as they are, not url-encoded
buildParamStatePlainRaw(action, params) ==
    LET encoded == appendEntries(appendParam(<<>>, <<"action">>, StrV(action)),
                                 ObjectEntries(params))
        plain == Flatten([i \in 1..Len(encoded) |->
                     (IF i = 1 THEN <<>> ELSE <<"&">>)
                     \o encoded[i][1] \o <<"=">> \o encoded[i][2]])
    IN  [encoded |-> encoded, raw |-> plain]

buildParamState(action, params) ==
    LET encoded == appendEntries(appendParam(<<>>, <<"action">>, StrV(action)),
                                 ObjectEntries(params))
    IN  [encoded |-> encoded, raw |-> SearchParamsToString(encoded)]


\* ------------------------------------------------------------------------
\* Inputs of the model: configurations, call options, responses
\* ------------------------------------------------------------------------

ADMIN_PATH == <<"api", "/", "admin", "/", "v2">>

\* Configurations loadConfig can return: accountUrl ends with "/", apiKey is
\* not empty, the bearer token is optional.
Configs ==
    { [accountUrl |-> <<"https", ":", "/", "/", "acme.worksection.com", "/">>,
       apiKey |-> <<"s3cr3t">>, slackBotToken |-> None],
      [accountUrl |-> <<"https", ":", "/", "/", "ws.example", "/", "team", "/">>,
       apiKey |-> <<"k2">>, slackBotToken |-> Some(<<"xoxb-1">>)] }

Entry(k, v) == [key |-> k, value |-> v]

\* the params objects of the calls, each as its entries in insertion order
ParamObjects ==
    { <<Entry(<<"filter">>, StrV(<<"active">>))>>,
      <<Entry(<<"hash">>, StrV(<<"x">>)), Entry(<<"action">>, StrV(<<"zz">>))>>,
      <<Entry(<<"q", " ", "r">>, StrV(<<"c", "&", "d", "=", "e">>))>>,
      <<Entry(<<"tags">>, ListV(<<StrV(<<"a">>), BoolV(FALSE)>>)),
        Entry(<<"open">>, BoolV(TRUE)),
        Entry(<<"skip">>, NullV),
        Entry(<<"page">>, NumV(2))>>,
      <<Entry(<<"filter">>, StrV(<<"active">>)), Entry(<<"page">>, UndefinedV)>>,
      <<Entry(<<"b">>, StrV(<<"1">>)), Entry(<<"a">>, StrV(<<"2">>))>>,
      <<Entry(<<"a">>, StrV(<<"2">>)), Entry(<<"b">>, StrV(<<"1">>))>>,
      <<Entry(<<"n">>, UndefinedV), Entry(<<"1">>, StrV(<<"y">>)),
        Entry(<<"0">>, StrV(<<"x">>))>> }

ParamOptions == {None} \cup {Some(o) : o \in ParamObjects}

MethodOptions == {None, Some("GET"), Some("POST")}

ActionNames == {<<"get_projects">>, <<"get_task">>}

Descriptor(field, filename, contentType, data, sourceUrl) ==
    [field |-> field, filename |-> filename, contentType |-> contentType,
     data |-> data, sourceUrl |-> sourceUrl]

FileUrl == <<"https", ":", "/", "/", "files.example", "/", "r.pdf">>

SlackUrl == <<"https", ":", "/", "/", "files.slack.com", "/", "s.png">>

\* the attachment descriptors a caller of call can pass
AttachmentInputs ==
    { Descriptor(<<"file">>, <<"a.png">>, Some(<<"image", "/", "png">>),
                 Some(<<1, 2>>), None),
      Descriptor(<<"blank">>, <<"e.bin">>, None, Some(<<>>), None),
      Descriptor(<<"doc">>, <<"r.pdf">>, None, None, Some(FileUrl)),
      Descriptor(<<"img">>, <<"s.png">>, Some(<<"image", "/", "png">>), None,
                 Some(SlackUrl)),
      Descriptor(<<"two">>, <<"b.txt">>, None, Some(<<3>>), Some(FileUrl)),
      Descriptor(<<"zero">>, <<"n.txt">>, Some(<<>>), None, None) }

RECURSIVE SeqsUpTo(_, _)
\* the sequences over S of length at most n
SeqsUpTo(S, n) ==
    IF n = 0 THEN {<<>>}
    ELSE LET shorter == SeqsUpTo(S, n - 1)
         IN  shorter \cup {Append(q, x) : q \in shorter, x \in S}

AttachmentOptions ==
    {None} \cup {Some(l) : l \in SeqsUpTo(AttachmentInputs, MaxAttachments)}

\* the options of the calls
CallOptions ==
    { [method |-> m, params |-> p, attachments |-> a] :
        m \in MethodOptions, p \in ParamOptions, a \in AttachmentOptions }

\* the options of the calls that are compared with an earlier call
PairOptions ==
    { [method |-> m, params |-> p, attachments |-> a] :
        m \in MethodOptions, p \in ParamOptions,
        a \in {None} \cup {Some(<<d>>) : d \in AttachmentInputs} }

\* the reason phrase a server sends with a status
StatusText(status) ==
    CASE status = 200 -> <<"OK">>
      [] status = 299 -> <<>>
      [] status = 300 -> <<"Multiple Choices">>
      [] status = 404 -> <<"Not Found">>
      [] status = 500 -> <<"Internal Server Error">>

Rejected(cause) == [kind |-> "rejected", cause |-> cause]

\* outcomes of the fetch of an attachment
DownloadResponses ==
    { Rejected(<<"getaddrinfo ENOTFOUND">>),
      [kind |-> "response", status |-> 404, body |-> <<4, 0, 4>>],
      [kind |-> "response", status |-> 200, body |-> <<>>],
      [kind |-> "response", status |-> 200, body |-> <<7, 8>>] }

\* response bodies of the API, as JSON.parse reads them
ApiBodies ==
    { [kind |-> "invalid"],
      [kind |-> "null"],
      [kind |-> "scalar"],
      [kind |-> "object", obj |-> [status |-> "ok", data |-> <<"[{id:1}]">>]],
      [kind |-> "object", obj |-> [data |-> <<"[]">>]],
      [kind |-> "object",
       obj |-> [status |-> "OK", message_details |-> <<"title">>]],
      [kind |-> "object",
       obj |-> [status |-> "error", message |-> <<"Invalid date">>,
                test |-> <<"YYYY-MM-DD", " ">>]],
      [kind |-> "object",
       obj |-> [status |-> "error", status_code |-> 10,
                message |-> <<"Field is required">>,
                message_details |-> <<"filter">>,
                test |-> <<" ", "YYYY-MM-DD", " ">>]] }

ApiStatuses == {200, 299, 300, 500}

\* outcomes of the fetch of the API endpoint
ApiResponses ==
    { Rejected(<<"connect ECONNREFUSED">>) } \cup
    { [kind |-> "response", status |-> st, body |-> b] :
        st \in ApiStatuses, b \in ApiBodies }

\* Response.ok taken for "not a client or server error"
ResponseOkBelow400(status) == 200 <= status /\ status < 400

\* Response.ok
ResponseOk(status) == 200 <= status /\ status <= 299

\* ------------------------------------------------------------------------
\* Errors and outcomes
\* ------------------------------------------------------------------------

Pending == [kind |-> "pending"]

\* call returning the data of the envelope in place of the envelope
ReturnedUnwrapped(value) == [kind |-> "returned", value |-> value.data]

Returned(value) == [kind |-> "returned", value |-> value]

Thrown(name, message, statusCode) ==
    [kind |-> "thrown", name |-> name, message |-> message,
     statusCode |-> statusCode]

\* the error constructed without keeping its statusCode
WorksectionApiErrorNoCode(message, statusCode) ==
    Thrown("WorksectionApiError", message, None)

WorksectionApiError(message, statusCode) ==
    Thrown("WorksectionApiError", message, statusCode)

\* truthiness of an optional string
Truthy(opt) == opt.some /\ opt.v # <<>>


\* ------------------------------------------------------------------------
\* WorksectionClient.call, one action per stretch between two awaits
\* ------------------------------------------------------------------------

\* no tool handler is running
NoTool == [name |-> "none"]

NoHeaders == [h \in {} |-> <<>>]

\* the attachments list of the call in progress ([] when undefined)
AttachmentList == IF inv.attachments.some THEN inv.attachments.v ELSE <<>>

\* new URL("/" + relative, base): the path of the base is dropped
ResolveUrlFromRoot(relative, base) ==
    LET slashes == {i \in 1..Len(base) : base[i] = "/"}
        root == CHOOSE i \in slashes : Cardinality({j \in slashes : j < i}) = 2
    IN  SubSeq(base, 1, root) \o relative

\* new URL(relative, base) for a relative path and a base without query:
\* the relative path replaces what follows the last "/" of the base
ResolveUrl(relative, base) ==
    LET slashes == {i \in 1..Len(base) : base[i] = "/"}
        cut == IF slashes = {} THEN 0
               ELSE CHOOSE i \in slashes : \A j \in slashes : j <= i
    IN  SubSeq(base, 1, cut) \o relative

\* String.prototype.trim, spaces being chunks of their own
RECURSIVE TrimLeft(_)
TrimLeft(s) == IF s # <<>> /\ Head(s) = " " THEN TrimLeft(Tail(s)) ELSE s

RECURSIVE TrimRight(_)
TrimRight(s) == IF s # <<>> /\ Last(s) = " " THEN TrimRight(Front(s)) ELSE s

Trim(s) == TrimRight(TrimLeft(s))

\* fetchRemoteAttachment that never sends the bearer token
DownloadRequestNoToken(url) ==
    [target |-> "download", method |-> "GET", url |-> url, search |-> <<>>,
     headers |-> NoHeaders,
     body |-> [kind |-> "none"]]

\* fetchRemoteAttachment, up to its fetch: the request it issues
DownloadRequest(url) ==
    [target |-> "download", method |-> "GET", url |-> url, search |-> <<>>,
     headers |-> IF Truthy(config.slackBotToken)
                 THEN ("Authorization" :> (<<"Bearer", " ">> \o config.slackBotToken.v))
                 ELSE NoHeaders,
     body |-> [kind |-> "none"]]

\* the payload prepareAttachments pushes for a descriptor and its bytes
Payload(attachment, buffer) ==
    [field |-> attachment.field, filename |-> attachment.filename,
     data |-> buffer,
     contentType |-> IF Truthy(attachment.contentType)
                     THEN attachment.contentType ELSE None]

\* call with the payloads list kept in a field of the client that the start of
\* every invocation empties, in place of a local of prepareAttachments
CallSharedPayloads(action, method, params, attachments) ==
    /\ pc = "idle"
    /\ inv' = [action |-> action, method |-> method, params |-> params,
               attachments |-> attachments]
    /\ pc' = "resolve"
    /\ idx' = 1
    /\ payloads' = <<>>
    /\ parked' = [k \in 1..Len(parked) |-> [parked[k] EXCEPT !.payloads = <<>>]]
    /\ http' = <<>>
    /\ fetched' = <<>>
    /\ received' = None
    /\ outcome' = Pending
    /\ UNCHANGED <<config, boot, prev>>

\* call(action, options): the invocation, up to the loop of prepareAttachments
Call(action, method, params, attachments) ==
    /\ pc = "idle"
    /\ inv' = [action |-> action, method |-> method, params |-> params,
               attachments |-> attachments]
    /\ pc' = "resolve"
    /\ idx' = 1
    /\ payloads' = <<>>
    /\ http' = <<>>
    /\ fetched' = <<>>
    /\ received' = None
    /\ outcome' = Pending
    /\ UNCHANGED <<config, boot, prev, parked>>

\* an invocation of call that does not come from a tool handler, its
\* arguments drawn from a set of options
DirectCall(choices) ==
    /\ pc = "idle"
    /\ tool = NoTool
    /\ \E action \in ActionNames, options \in choices :
          Call(action, options.method, options.params, options.attachments)
    /\ UNCHANGED <<tool, result>>

\* the loop of prepareAttachments starting the downloads of all the attachments
\* still to come at once when it meets the first of them
ResolveAttachmentAllAtOnce ==
    /\ pc = "resolve"
    /\ idx <= Len(AttachmentList)
    /\ LET attachment == AttachmentList[idx]
           coming == SelectSeq(SubSeq(AttachmentList, idx, Len(AttachmentList)),
                               LAMBDA a : ~a.data.some /\ Truthy(a.sourceUrl))
       IN  IF attachment.data.some /\ Truthy(attachment.sourceUrl)
           THEN /\ outcome' = WorksectionApiError(
                        <<"Attachment \"">> \o attachment.filename
                        \o <<"\" cannot define both data and sourceUrl.">>, None)
                /\ pc' = "done"
                /\ UNCHANGED <<idx, payloads, http>>
           ELSE IF attachment.data.some
           THEN /\ payloads' = Append(payloads, Payload(attachment, attachment.data.v))
                /\ idx' = idx + 1
                /\ UNCHANGED <<pc, http, outcome>>
           ELSE IF Truthy(attachment.sourceUrl)
           THEN /\ http' = http \o [k \in 1..Len(coming) |->
                                       DownloadRequest(coming[k].sourceUrl.v)]
                /\ pc' = "download"
                /\ UNCHANGED <<idx, payloads, outcome>>
           ELSE /\ outcome' = WorksectionApiError(
                        <<"Attachment \"">> \o attachment.filename
                        \o <<"\" must include base64 data or a download URL (sourceUrl).">>,
                        None)
                /\ pc' = "done"
                /\ UNCHANGED <<idx, payloads, http>>
    /\ UNCHANGED <<config, boot, inv, fetched, received, prev, parked, tool, result>>

\* one turn of the loop of prepareAttachments, up to the fetch of a download
ResolveAttachment ==
    /\ pc = "resolve"
    /\ idx <= Len(AttachmentList)
    /\ LET attachment == AttachmentList[idx]
       IN  IF attachment.data.some /\ Truthy(attachment.sourceUrl)
           THEN /\ outcome' = WorksectionApiError(
                        <<"Attachment \"">> \o attachment.filename
                        \o <<"\" cannot define both data and sourceUrl.">>, None)
                /\ pc' = "done"
                /\ UNCHANGED <<idx, payloads, http>>
           ELSE IF attachment.data.some
           THEN /\ payloads' = Append(payloads, Payload(attachment, attachment.data.v))
                /\ idx' = idx + 1
                /\ UNCHANGED <<pc, http, outcome>>
           ELSE IF Truthy(attachment.sourceUrl)
           THEN /\ http' = Append(http, DownloadRequest(attachment.sourceUrl.v))
                /\ pc' = "download"
                /\ UNCHANGED <<idx, payloads, outcome>>
           ELSE /\ outcome' = WorksectionApiError(
                        <<"Attachment \"">> \o attachment.filename
                        \o <<"\" must include base64 data or a download URL (sourceUrl).">>,
                        None)
                /\ pc' = "done"
                /\ UNCHANGED <<idx, payloads, http>>
    /\ UNCHANGED <<config, boot, inv, fetched, received, prev, parked, tool, result>>

\* DownloadDone with a failed download skipped instead of thrown: the loop
\* goes on to the next attachment
DownloadDoneSkipFailed(responses) ==
    /\ pc = "download"
    /\ \E r \in responses :
          LET attachment == AttachmentList[idx]
              failed == r.kind = "rejected" \/ r.status < 200 \/ r.status > 299
                        \/ Len(r.body) = 0
          IN  /\ payloads' = IF failed THEN payloads
                             ELSE Append(payloads, Payload(attachment, r.body))
              /\ idx' = idx + 1
              /\ pc' = "resolve"
              /\ UNCHANGED outcome
              /\ fetched' = Append(fetched, r)
    /\ UNCHANGED <<config, boot, inv, http, received, prev, parked, tool, result>>

\* fetchRemoteAttachment from the outcome of its fetch on, and the rest of the
\* turn of the loop
DownloadDone(responses) ==
    /\ pc = "download"
    /\ \E r \in responses :
          LET attachment == AttachmentList[idx]
              url == attachment.sourceUrl.v
          IN  /\ fetched' = Append(fetched, r)
              /\ IF r.kind = "rejected"
                 THEN /\ outcome' = WorksectionApiError(
                              <<"Failed to download attachment from ">> \o url
                              \o <<": ">> \o r.cause, None)
                      /\ pc' = "done"
                      /\ UNCHANGED <<idx, payloads>>
                 ELSE IF ~ResponseOk(r.status)
                 THEN /\ outcome' = WorksectionApiError(
                              <<"Downloading attachment failed (", ToString(r.status),
                                "): ">> \o StatusText(r.status), None)
                      /\ pc' = "done"
                      /\ UNCHANGED <<idx, payloads>>
                 ELSE IF Len(r.body) = 0
                 THEN /\ outcome' = WorksectionApiError(
                              <<"Attachment at ">> \o url \o <<" is empty.">>, None)
                      /\ pc' = "done"
                      /\ UNCHANGED <<idx, payloads>>
                 ELSE /\ payloads' = Append(payloads, Payload(attachment, r.body))
                      /\ idx' = idx + 1
                      /\ pc' = "resolve"
                      /\ UNCHANGED outcome
    /\ UNCHANGED <<config, boot, inv, http, received, prev, parked, tool, result>>

\* the requested method first: options?.method ?? (hasAttachments ? 'POST' : 'GET')
RequestMethodAsRequested(resolved, requested) ==
    IF requested.some THEN requested.v
    ELSE IF Len(resolved) > 0 THEN "POST" ELSE "GET"

\* hasAttachments ? 'POST' : options?.method ?? 'GET'
RequestMethod(resolved, requested) ==
    IF Len(resolved) > 0 THEN "POST"
    ELSE IF requested.some THEN requested.v ELSE "GET"

\* the digest salted with the number of requests the call has made so far
SignatureSalted(raw, apiKey) ==
    Md5Hex(Cat(raw) \o Cat(apiKey) \o ToString(Len(http)))

\* the key sent in place of a digest
SignatureKeyInClear(raw, apiKey) == Cat(apiKey)

\* crypto.createHash('md5').update(raw + apiKey).digest('hex')
Signature(raw, apiKey) == Md5Hex(Cat(raw) \o Cat(apiKey))

\* the form of a multipart request with the files appended before the fields
MultipartFormFilesFirst(encoded, resolved) ==
    [i \in 1..Len(resolved) |->
        [kind |-> "file", name |-> resolved[i].field,
         filename |-> resolved[i].filename,
         type |-> IF resolved[i].contentType.some THEN resolved[i].contentType.v
                  ELSE <<"application", "/", "octet-stream">>,
         data |-> resolved[i].data]]
    \o
    [i \in 1..Len(encoded) |->
        [kind |-> "field", name |-> encoded[i][1], value |-> encoded[i][2]]]

\* the form of a multipart request: the signed fields, then the files
MultipartForm(encoded, resolved) ==
    [i \in 1..Len(encoded) |->
        [kind |-> "field", name |-> encoded[i][1], value |-> encoded[i][2]]]
    \o
    [i \in 1..Len(resolved) |->
        [kind |-> "file", name |-> resolved[i].field,
         filename |-> resolved[i].filename,
         type |-> IF resolved[i].contentType.some THEN resolved[i].contentType.v
                  ELSE <<"application", "/", "octet-stream">>,
         data |-> resolved[i].data]]

\* the request with the query string set for GET only
ApiRequestQueryForGetOnly(action, options, resolved) ==
    LET hasAttachments == Len(resolved) > 0
        method == RequestMethod(resolved, options.method)
        params == prepareParams(options.params)
        state == buildParamState(action, params)
        hash == Signature(state.raw, config.apiKey)
        encoded == Append(state.encoded, <<<<"hash">>, <<hash>>>>)
        endpoint == ResolveUrl(ADMIN_PATH, config.accountUrl)
    IN  [target |-> "api", method |-> method, url |-> endpoint,
         search |-> IF method = "GET"
                    THEN SearchParamsToString(encoded) ELSE <<>>,
         headers |-> IF method # "GET" /\ ~hasAttachments
                     THEN ("Accept" :> <<"application", "/", "json">>) @@
                          ("Content-Type" :>
                              <<"application", "/", "x-www-form-urlencoded">>)
                     ELSE ("Accept" :> <<"application", "/", "json">>),
         body |-> IF method = "GET" THEN [kind |-> "none"]
                  ELSE IF hasAttachments
                  THEN [kind |-> "multipart",
                        parts |-> MultipartForm(encoded, resolved)]
                  ELSE [kind |-> "urlencoded",
                        text |-> SearchParamsToString(encoded)]]

\* the request call hands to fetch
ApiRequest(action, options, resolved) ==
    LET hasAttachments == Len(resolved) > 0
        method == RequestMethod(resolved, options.method)
        params == prepareParams(options.params)
        state == buildParamState(action, params)
        hash == Signature(state.raw, config.apiKey)
        encoded == Append(state.encoded, <<<<"hash">>, <<hash>>>>)
        endpoint == ResolveUrl(ADMIN_PATH, config.accountUrl)
    IN  [target |-> "api", method |-> method, url |-> endpoint,
         search |-> IF method = "GET" \/ hasAttachments
                    THEN SearchParamsToString(encoded) ELSE <<>>,
         headers |-> IF method # "GET" /\ ~hasAttachments
                     THEN ("Accept" :> <<"application", "/", "json">>) @@
                          ("Content-Type" :>
                              <<"application", "/", "x-www-form-urlencoded">>)
                     ELSE ("Accept" :> <<"application", "/", "json">>),
         body |-> IF method = "GET" THEN [kind |-> "none"]
                  ELSE IF hasAttachments
                  THEN [kind |-> "multipart",
                        parts |-> MultipartForm(encoded, resolved)]
                  ELSE [kind |-> "urlencoded",
                        text |-> SearchParamsToString(encoded)]]

\* call from the return of prepareAttachments up to its fetch
SendRequest ==
    /\ pc = "resolve"
    /\ idx > Len(AttachmentList)
    /\ http' = Append(http, ApiRequest(inv.action, inv, payloads))
    /\ pc' = "sent"
    /\ UNCHANGED <<config, boot, inv, idx, payloads, fetched, received, outcome, prev,
                   parked, tool, result>>

\* EnvelopeMessage with the format hint put before the field detail
EnvelopeMessageHintFirst(json) ==
    LET has(f) == f \in DOMAIN json
        truthy(f) == has(f) /\ json[f] # <<>>
        base == IF has("message") THEN json.message
                ELSE <<"Worksection API returned an error">>
        detail == IF truthy("message_details")
                  THEN <<" (field: ">> \o json.message_details \o <<")">>
                  ELSE <<>>
        hint == IF truthy("test")
                THEN <<". Expected format: ">> \o Trim(json.test)
                ELSE <<>>
    IN  base \o hint \o detail

\* the message of the error for a 2xx response whose envelope is not ok
EnvelopeMessage(json) ==
    LET has(f) == f \in DOMAIN json
        truthy(f) == has(f) /\ json[f] # <<>>
        base == IF has("message") THEN json.message
                ELSE <<"Worksection API returned an error">>
        detail == IF truthy("message_details")
                  THEN <<" (field: ">> \o json.message_details \o <<")">>
                  ELSE <<>>
        hint == IF truthy("test")
                THEN <<". Expected format: ">> \o Trim(json.test)
                ELSE <<>>
    IN  base \o detail \o hint

\* what call makes of the outcome of its fetch
Interpret(r) ==
    IF r.kind = "rejected"
    THEN WorksectionApiError(<<"Failed to reach Worksection API: ">> \o r.cause, None)
    ELSE IF ~ResponseOk(r.status)
    THEN WorksectionApiError(
             <<"Worksection API HTTP ", ToString(r.status), ": ">>
             \o StatusText(r.status), Some(r.status))
    ELSE IF r.body.kind = "invalid"
    THEN Thrown("SyntaxError", <<"Unexpected token in JSON">>, None)
    ELSE IF r.body.kind = "null"
    THEN Thrown("TypeError", <<"Cannot read properties of null (reading 'status')">>, None)
    ELSE IF r.body.kind = "scalar"
    THEN WorksectionApiError(<<"Worksection API returned an error">>, None)
    ELSE IF "status" \notin DOMAIN r.body.obj \/ r.body.obj.status # "ok"
    THEN WorksectionApiError(
             EnvelopeMessage(r.body.obj),
             IF "status_code" \in DOMAIN r.body.obj
             THEN Some(r.body.obj.status_code) ELSE None)
    ELSE Returned(r.body.obj)

\* ApiDone with one retry after a network failure
ApiDoneRetryOnce(responses) ==
    /\ pc = "sent"
    /\ \E r \in responses :
          /\ received' = Some(r)
          /\ IF r.kind = "rejected"
                /\ Len(SelectSeq(http, LAMBDA q : q.target = "api")) < 2
             THEN /\ http' = Append(http, ApiRequest(inv.action, inv, payloads))
                  /\ UNCHANGED <<pc, outcome>>
             ELSE /\ outcome' = Interpret(r)
                  /\ pc' = "done"
                  /\ UNCHANGED http
    /\ UNCHANGED <<config, boot, inv, idx, payloads, fetched, prev, parked, tool, result>>

\* call from the outcome of its fetch to its return or throw
ApiDone(responses) ==
    /\ pc = "sent"
    /\ \E r \in responses :
          /\ received' = Some(r)
          /\ outcome' = Interpret(r)
    /\ pc' = "done"
    /\ UNCHANGED <<config, boot, inv, idx, payloads, http, fetched, prev, parked, tool,
                   result>>

\* the requests the call in progress sent to the API
ApiRequests == SelectSeq(http, LAMBDA q : q.target = "api")

\* the requests the call in progress sent to attachment sources
Downloads == SelectSeq(http, LAMBDA q : q.target = "download")

\* the appended hash field of a request to the API
HashOf(request) ==
    IF request.body.kind = "multipart"
    THEN LET fields == SelectSeq(request.body.parts, LAMBDA part : part.kind = "field")
         IN  Last(fields).value
    ELSE IF request.body.kind = "urlencoded"
    THEN Last(ParseUrlEncoded(request.body.text))[2]
    ELSE Last(ParseUrlEncoded(request.search))[2]

\* ------------------------------------------------------------------------
\* The post_task tool handler (src/src/index.ts)
\* ------------------------------------------------------------------------

\* respond(data)
respond(data) == [isError |-> FALSE, structuredContent |-> data]

\* respondError(error): the text is the message of the error
respondError(message) == [isError |-> TRUE, text |-> message]

\* Buffer.from(text, "base64"): a chunk of the text is a group of four
\* base64 characters or a character outside the alphabet, which is skipped;
\* it never throws
DecodeGroup(g) ==
    CASE g = "AQI=" -> <<1, 2>>
      [] g = "Aw==" -> <<3>>
      [] OTHER -> <<>>

Base64Decode(text) == Flatten([i \in 1..Len(text) |-> DecodeGroup(text[i])])

\* values && values.length ? values.join(", ") : undefined
commaSeparated(values) ==
    IF values.some /\ Len(values.v) > 0
    THEN StrV(Flatten([i \in 1..Len(values.v) |->
                 IF i = 1 THEN values.v[i] ELSE <<",", " ">> \o values.v[i]]))
    ELSE UndefinedV

\* an optional argument as a parameter value
OptStr(opt) == IF opt.some THEN StrV(opt.v) ELSE UndefinedV

ToolAttachment(filename, data, sourceUrl, contentType) ==
    [filename |-> filename, data |-> data, sourceUrl |-> sourceUrl,
     contentType |-> contentType]

\* attachments that pass attachmentSchema: a filename, and data or sourceUrl
\* (or both) not empty
ToolAttachments ==
    { ToolAttachment(<<"a.png">>, Some(<<"AQI=">>), None, Some(<<"image", "/", "png">>)),
      ToolAttachment(<<"junk.bin">>, Some(<<"!", "!">>), None, None),
      ToolAttachment(<<"r.pdf">>, None, Some(FileUrl), None),
      ToolAttachment(<<"both.txt">>, Some(<<"Aw==">>), Some(FileUrl), None) }

\* arguments that pass createTaskArgsSchema; the optional arguments the
\* model never gives are left out of the record
PostTaskArgs ==
    { [projectId |-> <<"17">>, title |-> <<"Fix", " ", "login">>,
       description |-> d, tags |-> t, checklist |-> c, attachments |-> a] :
        d \in {None},
        t \in {None, Some(<<<<"ui">>, <<"bug">>>>)},
        c \in {None},
        a \in {None} \cup {Some(l) : l \in SeqsUpTo(ToolAttachments, MaxAttachments)} }

\* the params object the handler builds, its keys in the order it writes them
PostTaskParams(args) ==
    << Entry(<<"id_project">>, StrV(args.projectId)),
       Entry(<<"title">>, StrV(args.title)),
       Entry(<<"text">>, OptStr(args.description)),
       Entry(<<"id_parent">>, UndefinedV),
       Entry(<<"email_user_to">>, UndefinedV),
       Entry(<<"priority">>, UndefinedV),
       Entry(<<"datestart">>, UndefinedV),
       Entry(<<"dateend">>, UndefinedV),
       Entry(<<"subscribe">>, UndefinedV),
       Entry(<<"hidden">>, UndefinedV),
       Entry(<<"mention">>, UndefinedV),
       Entry(<<"max_time">>, UndefinedV),
       Entry(<<"max_money">>, UndefinedV),
       Entry(<<"tags">>, commaSeparated(args.tags)),
       Entry(<<"todo">>, IF args.checklist.some /\ Len(args.checklist.v) > 0
                         THEN ListV([i \in 1..Len(args.checklist.v) |->
                                        StrV(args.checklist.v[i])])
                         ELSE UndefinedV) >>

\* the callback forwarding the sourceUrl of an attachment also when it
\* forwards its data
MapAttachmentBothForwarded(attachment, index) ==
    LET decoded == IF Truthy(attachment.data)
                   THEN Some(Base64Decode(attachment.data.v)) ELSE None
    IN  IF decoded.some /\ Len(decoded.v) = 0
        THEN [ok |-> FALSE,
              message |-> <<"Attachment \"">> \o attachment.filename
                          \o <<"\" is empty or not valid base64 data.">>]
        ELSE IF decoded.some \/ Truthy(attachment.sourceUrl)
        THEN [ok |-> TRUE,
              v |-> Descriptor(<<"attach", "[", ToString(index), "]">>,
                               attachment.filename,
                               IF Truthy(attachment.contentType)
                               THEN attachment.contentType ELSE None,
                               decoded,
                               IF Truthy(attachment.sourceUrl)
                               THEN attachment.sourceUrl ELSE None)]
        ELSE [ok |-> FALSE,
              message |-> <<"Attachment \"">> \o attachment.filename
                          \o <<"\" requires base64 data or sourceUrl.">>]

\* the callback of args.attachments.map for the attachment at a 0-based
\* index: the AttachmentInput it returns or the message of the Error it throws
MapAttachment(attachment, index) ==
    LET decoded == IF Truthy(attachment.data)
                   THEN Some(Base64Decode(attachment.data.v)) ELSE None
    IN  IF decoded.some /\ Len(decoded.v) = 0
        THEN [ok |-> FALSE,
              message |-> <<"Attachment \"">> \o attachment.filename
                          \o <<"\" is empty or not valid base64 data.">>]
        ELSE IF decoded.some
        THEN [ok |-> TRUE,
              v |-> Descriptor(<<"attach", "[", ToString(index), "]">>,
                               attachment.filename,
                               IF Truthy(attachment.contentType)
                               THEN attachment.contentType ELSE None,
                               decoded, None)]
        ELSE IF Truthy(attachment.sourceUrl)
        THEN [ok |-> TRUE,
              v |-> Descriptor(<<"attach", "[", ToString(index), "]">>,
                               attachment.filename,
                               IF Truthy(attachment.contentType)
                               THEN attachment.contentType ELSE None,
                               None, attachment.sourceUrl)]
        ELSE [ok |-> FALSE,
              message |-> <<"Attachment \"">> \o attachment.filename
                          \o <<"\" requires base64 data or sourceUrl.">>]

\* the handler of post_task up to its await of client.call
PostTask(arguments) ==
    /\ pc = "idle"
    /\ tool = NoTool
    /\ result = Pending
    /\ \E args \in arguments :
          LET list == IF args.attachments.some THEN args.attachments.v ELSE <<>>
              mapped == [i \in 1..Len(list) |-> MapAttachment(list[i], i - 1)]
              failed == {i \in 1..Len(list) : ~mapped[i].ok}
              first == CHOOSE i \in failed : \A j \in failed : i <= j
          IN  /\ tool' = [name |-> "post_task", args |-> args]
              /\ IF failed # {}
                 THEN /\ result' = respondError(mapped[first].message)
                      /\ UNCHANGED <<config, boot, pc, inv, idx, payloads, http, fetched,
                                     received, outcome, prev, parked>>
                 ELSE /\ result' = Pending
                      /\ IF Len(list) > 0
                         THEN Call(<<"post_task">>, Some("POST"),
                                   Some(PostTaskParams(args)),
                                   Some([i \in 1..Len(list) |-> mapped[i].v]))
                         ELSE Call(<<"post_task">>, None,
                                   Some(PostTaskParams(args)), None)

\* the handler of post_task from the outcome of client.call on
PostTaskDone ==
    /\ pc = "done"
    /\ tool.name = "post_task"
    /\ result = Pending
    /\ result' = IF outcome.kind = "returned"
                 THEN respond([task |-> IF "data" \in DOMAIN outcome.value
                                        THEN Some(outcome.value.data) ELSE None])
                 ELSE respondError(outcome.message)
    /\ UNCHANGED <<config, boot, pc, inv, idx, payloads, http, fetched, received,
                   outcome, prev, parked, tool>>

\* ------------------------------------------------------------------------
\* The get_users tool, the users resource and the projectId completion
\* (src/src/index.ts)
\* ------------------------------------------------------------------------

\* the elements of the data of an envelope when it is a JSON array, each with
\* its id when it has one; data is the JSON text the server sent
JsonItems(data) ==
    CASE data = <<"[{id:1}]">> -> << [id |-> Some(<<"1">>)] >>
      [] OTHER -> <<>>

\* Array.isArray(response.data) ? response.data : []
DataArray(response) ==
    IF "data" \in DOMAIN response THEN JsonItems(response.data) ELSE <<>>

\* the handler of get_users up to its await of client.call
GetUsers ==
    /\ pc = "idle"
    /\ tool = NoTool
    /\ result = Pending
    /\ tool' = [name |-> "get_users"]
    /\ result' = Pending
    /\ Call(<<"get_users">>, None, None, None)

\* the handler of get_users from the outcome of client.call on
GetUsersDone ==
    /\ pc = "done"
    /\ tool.name = "get_users"
    /\ result = Pending
    /\ result' = IF outcome.kind = "returned"
                 THEN respond([count |-> Len(DataArray(outcome.value)),
                               users |-> DataArray(outcome.value)])
                 ELSE respondError(outcome.message)
    /\ UNCHANGED <<config, boot, pc, inv, idx, payloads, http, fetched, received,
                   outcome, prev, parked, tool>>

\* the read callback of worksection://users up to its await of client.call
ReadUsersResource ==
    /\ pc = "idle"
    /\ tool = NoTool
    /\ result = Pending
    /\ tool' = [name |-> "worksection://users"]
    /\ result' = Pending
    /\ Call(<<"get_users">>, None, None, None)

\* the read callback from the outcome of client.call on: it has no catch, an
\* error of call rejects the promise it returned
ReadUsersResourceDone ==
    /\ pc = "done"
    /\ tool.name = "worksection://users"
    /\ result = Pending
    /\ result' = IF outcome.kind = "returned"
                 THEN [contents |-> outcome.value]
                 ELSE [rejected |-> outcome]
    /\ UNCHANGED <<config, boot, pc, inv, idx, payloads, http, fetched, received,
                   outcome, prev, parked, tool>>

\* the values a client asks completions of projectId for
CompletionPrefixes == {<<>>, <<"1">>, <<"2">>}

\* completeProjectIds up to its await of client.call
CompleteProjectIds(values) ==
    /\ pc = "idle"
    /\ tool = NoTool
    /\ result = Pending
    /\ \E value \in values :
          /\ tool' = [name |-> "completeProjectIds", value |-> value]
          /\ result' = Pending
          /\ Call(<<"get_projects">>, None, None, None)

\* completeProjectIds from the outcome of client.call on: the ids of the
\* projects that start with the value, or [] from its catch
CompleteProjectIdsDone ==
    /\ pc = "done"
    /\ tool.name = "completeProjectIds"
    /\ result = Pending
    /\ LET projects == DataArray(outcome.value)
           withId == SelectSeq(projects, LAMBDA project : Truthy(project.id))
           ids == [i \in 1..Len(withId) |-> withId[i].id.v]
           prefix == tool.value
           filtered == SelectSeq(ids, LAMBDA id :
                                     /\ Len(prefix) <= Len(id)
                                     /\ SubSeq(id, 1, Len(prefix)) = prefix)
       IN  result' = IF outcome.kind = "returned"
                     THEN [completions |-> SubSeq(filtered, 1,
                                                  IF Len(filtered) < 25
                                                  THEN Len(filtered) ELSE 25)]
                     ELSE [completions |-> <<>>]
    /\ UNCHANGED <<config, boot, pc, inv, idx, payloads, http, fetched, received,
                   outcome, prev, parked, tool>>

\* ------------------------------------------------------------------------
\* The other tools and resources (src/src/index.ts)
\* ------------------------------------------------------------------------

\* no handler is running and none has a result to hand over
Idle == pc = "idle" /\ tool = NoTool /\ result = Pending

\* a handler that asks for POST in the options of its call
InvokeByPost(name, args, action, params) ==
    /\ tool' = [name |-> name, args |-> args]
    /\ result' = Pending
    /\ Call(action, Some("POST"), Some(params), None)

\* a handler up to its await of client.call(action, { params })
Invoke(name, args, action, params) ==
    /\ tool' = [name |-> name, args |-> args]
    /\ result' = Pending
    /\ Call(action, None, Some(params), None)

\* a handler that ends before any call, with a result
Refuse(name, args, value) ==
    /\ tool' = [name |-> name, args |-> args]
    /\ result' = value
    /\ UNCHANGED <<config, boot, pc, inv, idx, payloads, http, fetched, received,
                   outcome, prev, parked>>

\* a tool handler from the outcome of client.call on: respond(data) of what
\* it makes of the envelope, or respondError from its catch
Conclude(name, data) ==
    /\ pc = "done"
    /\ tool.name = name
    /\ result = Pending
    /\ result' = IF outcome.kind = "returned" THEN respond(data)
                 ELSE respondError(outcome.message)
    /\ UNCHANGED <<config, boot, pc, inv, idx, payloads, http, fetched, received,
                   outcome, prev, parked, tool>>

\* a resource callback from the outcome of client.call on: it has no catch
Read(name) ==
    /\ pc = "done"
    /\ tool.name = name
    /\ result = Pending
    /\ result' = IF outcome.kind = "returned" THEN [contents |-> outcome.value]
                 ELSE [rejected |-> outcome]
    /\ UNCHANGED <<config, boot, pc, inv, idx, payloads, http, fetched, received,
                   outcome, prev, parked, tool>>

\* an entry the handler writes under a condition
When(cond, key, value) == IF cond THEN <<Entry(key, value)>> ELSE <<>>

\* Array.prototype.join(", ")
join(values) ==
    Flatten([i \in 1..Len(values) |->
                IF i = 1 THEN values[i] ELSE <<",", " ">> \o values[i]])

\* if (include?.length) params.extra = include.join(", ")
Extra(include) ==
    When(include.some /\ Len(include.v) > 0, <<"extra">>, StrV(join(include.v)))

\* response.data ?? {}
DataOrEmpty(response) ==
    IF "data" \in DOMAIN response THEN Some(response.data) ELSE None

\* the include arguments of the project tools
ProjectIncludes ==
    { None, Some(<<>>), Some(<< <<"text">> >>), Some(<< <<"text">>, <<"users">> >>),
      Some(<< <<"users">>, <<"options">>, <<"text">> >>) }

GetProjectsArgs == [filter : {None, Some(<<"active">>)}, include : ProjectIncludes]

GetProjects(arguments) ==
    /\ Idle
    /\ \E args \in arguments :
          Invoke("get_projects", args, <<"get_projects">>,
                 When(Truthy(args.filter), <<"filter">>, StrV(args.filter.v))
                 \o Extra(args.include))

GetProjectsDone ==
    Conclude("get_projects",
             [count |-> Len(DataArray(outcome.value)),
              projects |-> DataArray(outcome.value),
              appliedFilter |-> tool.args.filter,
              requestedExtras |-> IF tool.args.include.some
                                  THEN tool.args.include.v ELSE <<>>])

GetProjectArgs == [projectId : {<<"123">>}, include : ProjectIncludes]

GetProject(arguments) ==
    /\ Idle
    /\ \E args \in arguments :
          Invoke("get_project", args, <<"get_project">>,
                 <<Entry(<<"id_project">>, StrV(args.projectId))>>
                 \o Extra(args.include))

GetProjectDone == Conclude("get_project", [project |-> DataOrEmpty(outcome.value)])

\* the include arguments of the task tools
TaskIncludes == { None, Some(<< <<"text">>, <<"files">> >>) }

GetTasksArgs ==
    [projectId : {<<"123">>}, activeOnly : {None, Some(TRUE)}, include : TaskIncludes]

GetTasks(arguments) ==
    /\ Idle
    /\ \E args \in arguments :
          Invoke("get_tasks", args, <<"get_tasks">>,
                 <<Entry(<<"id_project">>, StrV(args.projectId))>>
                 \o When(args.activeOnly.some /\ args.activeOnly.v,
                         <<"filter">>, StrV(<<"active">>))
                 \o Extra(args.include))

GetTasksDone ==
    Conclude("get_tasks",
             [projectId |-> tool.args.projectId,
              count |-> Len(DataArray(outcome.value)),
              tasks |-> DataArray(outcome.value)])

GetTaskArgs ==
    [taskId : {<<"77">>}, include : TaskIncludes,
     activeSubtasksOnly : {None, Some(FALSE), Some(TRUE)}]

GetTask(arguments) ==
    /\ Idle
    /\ \E args \in arguments :
          Invoke("get_task", args, <<"get_task">>,
                 <<Entry(<<"id_task">>, StrV(args.taskId))>>
                 \o Extra(args.include)
                 \o When(args.activeSubtasksOnly.some /\ args.activeSubtasksOnly.v,
                         <<"filter">>, StrV(<<"active">>)))

GetTaskDone == Conclude("get_task", [task |-> DataOrEmpty(outcome.value)])

\* arguments that pass addCommentArgsSchema
PostCommentArgs ==
    [taskId : {<<"77">>},
     text : {None, Some(<<>>), Some(<<" ">>), Some(<<"done">>)},
     checklist : {None, Some(<<>>), Some(<< <<"a">>, <<"b">> >>)},
     visibilityEmails : {None},
     mentionEmails : {None, Some(<< <<"a@x.io">>, <<"b@x.io">> >>)}]

\* the params object the handler of post_comment builds
PostCommentParams(args) ==
    << Entry(<<"id_task">>, StrV(args.taskId)),
       Entry(<<"text">>, OptStr(args.text)),
       Entry(<<"hidden">>, commaSeparated(args.visibilityEmails)),
       Entry(<<"mention">>, commaSeparated(args.mentionEmails)),
       Entry(<<"todo">>, IF args.checklist.some /\ Len(args.checklist.v) > 0
                         THEN ListV([i \in 1..Len(args.checklist.v) |->
                                        StrV(args.checklist.v[i])])
                         ELSE UndefinedV) >>

\* the handler of post_comment without its check of text and checklist
PostCommentUnchecked(arguments) ==
    /\ Idle
    /\ \E args \in arguments :
          Invoke("post_comment", args, <<"post_comment">>, PostCommentParams(args))

\* the handler of post_comment up to its await of client.call, or to the
\* error it returns when there is neither text nor checklist item
PostComment(arguments) ==
    /\ Idle
    /\ \E args \in arguments :
          IF ~Truthy(args.text) /\ ~(args.checklist.some /\ Len(args.checklist.v) > 0)
          THEN Refuse("post_comment", args,
                      respondError(<<"Provide comment text or at least one checklist item.">>))
          ELSE Invoke("post_comment", args, <<"post_comment">>,
                      PostCommentParams(args))

PostCommentDone == Conclude("post_comment", [comment |-> DataOrEmpty(outcome.value)])

GetCommentsArgs == [taskId : {<<"77">>}, include : {None, Some(<< <<"files">> >>)}]

GetComments(arguments) ==
    /\ Idle
    /\ \E args \in arguments :
          Invoke("get_comments", args, <<"get_comments">>,
                 <<Entry(<<"id_task">>, StrV(args.taskId))>> \o Extra(args.include))

GetCommentsDone ==
    Conclude("get_comments",
             [taskId |-> tool.args.taskId,
              count |-> Len(DataArray(outcome.value)),
              comments |-> DataArray(outcome.value)])

\* the groups of digits the dates of the model are written with
Digits == {"2024", "01", "31"}

\* /^(\d{4})-(\d{2})-(\d{2})$/
IsIsoDate(text) ==
    /\ Len(text) = 5
    /\ text[2] = "-" /\ text[4] = "-"
    /\ \A i \in {1, 3, 5} : text[i] \in Digits
    /\ Len(text[1]) = 4 /\ Len(text[3]) = 2 /\ Len(text[5]) = 2

\* formatWsDate(raw)
formatWsDate(raw) ==
    IF ~Truthy(raw) THEN UndefinedV
    ELSE LET trimmed == Trim(raw.v)
         IN  IF IsIsoDate(trimmed)
             THEN StrV(<<trimmed[5], ".", trimmed[3], ".", trimmed[1]>>)
             ELSE StrV(trimmed)

CostsArgs(projectId, taskId, startDate, endDate, isTimer, filter, include) ==
    [projectId |-> projectId, taskId |-> taskId, startDate |-> startDate,
     endDate |-> endDate, isTimer |-> isTimer, filter |-> filter,
     include |-> include]

\* arguments that pass getCostsArgsSchemaBase, the shape the tools are
\* registered with
GetCostsArgs ==
    { CostsArgs(None, None, None, None, None, None, None),
      CostsArgs(None, None, None, None, Some(TRUE), None, None),
      CostsArgs(Some(<<>>), None, Some(<<>>), None, Some(FALSE), Some(<<>>), None),
      CostsArgs(Some(<<"123">>), None, None, None, None, None, None),
      CostsArgs(None, Some(<<"77">>), None, None, Some(FALSE), None, None),
      CostsArgs(None, None, Some(<<"2024", "-", "01", "-", "31">>), None, None, None, None),
      CostsArgs(None, None, None, Some(<<" ", "31", ".", "01", ".", "2024">>), None, None, None),
      CostsArgs(None, None, Some(<<" ">>), None, None, None, None),
      CostsArgs(None, None, None, None, None, Some(<<"project=2456">>), None),
      CostsArgs(Some(<<"123">>), Some(<<"77">>), Some(<<"2024", "-", "01", "-", "31">>),
                Some(<<"2024", "-", "01", "-", "31">>), Some(TRUE),
                Some(<<"project=2456">>), None) }

\* the message of the error both cost tools return without a filter
NoFilterMessage ==
    <<"At least one filter parameter is required (projectId, taskId, startDate, endDate, or filter) to prevent unbounded queries that may exceed memory limits.">>

\* !args.projectId && !args.taskId && !args.startDate && !args.endDate && !args.filter
NoFilterGiven(args) ==
    /\ ~Truthy(args.projectId) /\ ~Truthy(args.taskId) /\ ~Truthy(args.startDate)
    /\ ~Truthy(args.endDate) /\ ~Truthy(args.filter)

\* the parameters both cost tools build from the filters
CostsParams(args) ==
    When(Truthy(args.projectId), <<"id_project">>, StrV(args.projectId.v))
    \o When(Truthy(args.taskId), <<"id_task">>, StrV(args.taskId.v))
    \o When(Truthy(args.startDate), <<"datestart">>, formatWsDate(args.startDate))
    \o When(Truthy(args.endDate), <<"dateend">>, formatWsDate(args.endDate))
    \o When(args.isTimer.some, <<"is_timer">>, NumV(IF args.isTimer.v THEN 1 ELSE 0))
    \o When(Truthy(args.filter), <<"filter">>, StrV(args.filter.v))

GetCosts(arguments) ==
    /\ Idle
    /\ \E args \in arguments :
          IF NoFilterGiven(args)
          THEN Refuse("get_costs", args, respondError(NoFilterMessage))
          ELSE Invoke("get_costs", args, <<"get_costs">>, CostsParams(args))

GetCostsDone ==
    Conclude("get_costs",
             [count |-> Len(DataArray(outcome.value)),
              costs |-> DataArray(outcome.value)])

GetCostsTotalArgs ==
    { CostsArgs(None, None, None, None, None, None, None),
      CostsArgs(None, None, None, None, Some(FALSE), None, Some(<< <<"projects">> >>)),
      CostsArgs(Some(<<"123">>), None, None, None, None, None, None),
      CostsArgs(Some(<<"123">>), None, None, None, None, None, Some(<<>>)),
      CostsArgs(Some(<<"123">>), Some(<<"77">>), None, None, None, None, None),
      CostsArgs(None, None, Some(<<" ">>), None, None, None, None),
      CostsArgs(None, None, None, Some(<<"2024", "-", "01", "-", "31">>), None, None,
                Some(<< <<"tasks">>, <<"projects">> >>)),
      CostsArgs(None, None, None, None, None, Some(<<"project=2456">>),
                Some(<< <<"tasks_top_level">> >>)) }

\* the extra parameter of get_costs_total: what include lists, or projects
\* for a projectId without taskId
extraParts(args) ==
    IF args.include.some /\ Len(args.include.v) > 0 THEN args.include.v
    ELSE IF Truthy(args.projectId) /\ ~Truthy(args.taskId) THEN << <<"projects">> >>
    ELSE <<>>

GetCostsTotal(arguments) ==
    /\ Idle
    /\ \E args \in arguments :
          IF NoFilterGiven(args)
          THEN Refuse("get_costs_total", args, respondError(NoFilterMessage))
          ELSE Invoke("get_costs_total", args, <<"get_costs_total">>,
                      CostsParams(args)
                      \o When(Len(extraParts(args)) > 0, <<"extra">>,
                              StrV(join(extraParts(args)))))

\* the totals of the answer: data when it has a key, else what the envelope
\* holds beside data, else nothing
Totals(response) ==
    LET rest == [f \in DOMAIN response \ {"data"} |-> response[f]]
    IN  IF "data" \in DOMAIN response /\ Len(JsonItems(response.data)) > 0
        THEN [of |-> "data", v |-> response.data]
        ELSE IF DOMAIN rest # {} THEN [of |-> "rest", v |-> rest]
        ELSE [of |-> "none"]

GetCostsTotalDone == Conclude("get_costs_total", [totals |-> Totals(outcome.value)])

GetTimers ==
    /\ Idle
    /\ tool' = [name |-> "get_timers"]
    /\ result' = Pending
    /\ Call(<<"get_timers">>, None, None, None)

GetTimersDone ==
    Conclude("get_timers",
             [count |-> Len(DataArray(outcome.value)),
              timers |-> DataArray(outcome.value)])

\* the read callback of worksection://projects
ReadProjectsResource ==
    /\ Idle
    /\ Invoke("worksection://projects", [uri |-> <<"worksection://projects">>],
              <<"get_projects">>,
              <<Entry(<<"extra">>,
                      StrV(<<"text", ",", " ", "options", ",", " ", "users">>))>>)

ReadProjectsResourceDone == Read("worksection://projects")

\* the extra both task resources ask for
FullTaskExtra ==
    StrV(<<"text", ",", " ", "files", ",", " ", "comments", ",", " ", "relations",
           ",", " ", "subtasks", ",", " ", "subscribers">>)

\* the value of the variable of a resource template, empty when the URI has
\* none
TemplateValues == {<<>>, <<"123">>}

\* the read callback of worksection://projects/{projectId}/tasks
ReadProjectTasksResource(values) ==
    /\ Idle
    /\ \E projectId \in values :
          IF projectId = <<>>
          THEN Refuse("worksection://projects/{projectId}/tasks",
                      [projectId |-> projectId],
                      [rejected |-> WorksectionApiError(
                          <<"projectId must be supplied in the resource URI">>, None)])
          ELSE Invoke("worksection://projects/{projectId}/tasks",
                      [projectId |-> projectId], <<"get_tasks">>,
                      << Entry(<<"id_project">>, StrV(projectId)),
                         Entry(<<"extra">>, FullTaskExtra) >>)

ReadProjectTasksResourceDone == Read("worksection://projects/{projectId}/tasks")

\* the read callback of worksection://tasks/{taskId}
ReadTaskResource(values) ==
    /\ Idle
    /\ \E taskId \in values :
          IF taskId = <<>>
          THEN Refuse("worksection://tasks/{taskId}", [taskId |-> taskId],
                      [rejected |-> WorksectionApiError(
                          <<"taskId must be provided in the resource URI">>, None)])
          ELSE Invoke("worksection://tasks/{taskId}", [taskId |-> taskId],
                      <<"get_task">>,
                      << Entry(<<"id_task">>, StrV(taskId)),
                         Entry(<<"extra">>, FullTaskExtra) >>)

ReadTaskResourceDone == Read("worksection://tasks/{taskId}")

\* ------------------------------------------------------------------------
\* Configuration: loadConfig and what it reads from the environment
\* ------------------------------------------------------------------------

\* a function of the configuration module returning a value
Value(v) == [kind |-> "returned", value |-> v]

\* String.prototype.toLowerCase of one chunk
LowerChunk(chunk) ==
    CASE chunk = "HTTPS" -> "https"
      [] chunk = "Acme.Worksection.COM" -> "acme.worksection.com"
      [] chunk = "Both" -> "both"
      [] chunk = "STDIO" -> "stdio"
      [] OTHER -> chunk

toLowerCase(s) == [i \in 1..Len(s) |-> LowerChunk(s[i])]

\* new URL(rawUrl).toString() for scheme://host[/path][?query]: surrounding
\* spaces are stripped, scheme and host are lower-cased, an empty path becomes
\* "/"; anything without scheme and authority is a TypeError
ParseUrl(rawUrl) ==
    LET s == Trim(rawUrl)
        valid == /\ Len(s) >= 5
                 /\ s[1] \notin SpecialChars \cup {" "}
                 /\ s[2] = ":" /\ s[3] = "/" /\ s[4] = "/"
                 /\ s[5] \notin SpecialChars \cup {" ", ":", "/", "?"}
                 /\ \A i \in 6..Len(s) : s[i] # " "
                 /\ Len(s) >= 6 => s[6] \in {"/", "?"}
        origin == <<LowerChunk(s[1]), ":", "/", "/", LowerChunk(s[5])>>
        rest == SubSeq(s, 6, Len(s))
    IN  IF ~valid THEN Thrown("TypeError", <<"Invalid URL">>, None)
        ELSE IF rest = <<>> \/ Head(rest) = "?" THEN Value(origin \o <<"/">> \o rest)
        ELSE Value(origin \o rest)

\* normalizeAccountUrl that returns the serialized URL as it is
normalizeAccountUrlAsParsed(rawUrl) == ParseUrl(rawUrl)

normalizeAccountUrl(rawUrl) ==
    LET parsed == ParseUrl(rawUrl)
    IN  IF parsed.kind = "thrown" THEN parsed
        ELSE IF Last(parsed.value) = "/" THEN parsed
        ELSE Value(parsed.value \o <<"/">>)

\* the JSON blobs of SLACK_APP_JETBASE_AGENT_PM_TEST, as JSON.parse reads them;
\* nested and fallback are the two BOT_USER_OAUTH_TOKEN members when they are
\* strings
SlackBlobs ==
    { [kind |-> "empty"],
      [kind |-> "invalid"],
      [kind |-> "null"],
      [kind |-> "object", nested |-> Some(<<" ", "xoxb-2">>), fallback |-> None],
      [kind |-> "object", nested |-> None, fallback |-> Some(<<"xoxb-3">>)],
      [kind |-> "object", nested |-> Some(<<" ">>), fallback |-> Some(<<"xoxb-3">>)],
      [kind |-> "object", nested |-> None, fallback |-> None] }

\* the environments the process is started in
Environments ==
    [ WORKSECTION_ACCOUNT_URL :
        { None, Some(<<>>), Some(<<" ">>), Some(<<"acme.worksection.com">>),
          Some(<<"https", ":", "/", "/", "acme.worksection.com">>),
          Some(<<"https", ":", "/", "/", "acme.worksection.com", "/">>),
          Some(<<" ", "HTTPS", ":", "/", "/", "Acme.Worksection.COM", " ">>),
          Some(<<"https", ":", "/", "/", "ws.example", "/", "team">>),
          Some(<<"https", ":", "/", "/", "ws.example", "/", "team", "/">>),
          Some(<<"https", ":", "/", "/", "ws.example", "?", "a=1">>) },
      WORKSECTION_ADMIN_API_KEY :
        { None, Some(<<>>), Some(<<" ">>), Some(<<" ", "s3cr3t", " ">>),
          Some(<<"k2">>) },
      SLACK_FILE_BEARER_TOKEN :
        { None, Some(<<" ">>), Some(<<"xoxb-1", " ">>) },
      SLACK_APP_JETBASE_AGENT_PM_TEST :
        { None } \cup { Some(b) : b \in SlackBlobs },
      WORKSECTION_TRANSPORT :
        { None, Some(<<>>), Some(<<"http">>), Some(<<"stdio">>), Some(<<"Both">>),
          Some(<<"STDIO">>), Some(<<"sse">>), Some(<<" ", "http">>) } ]

\* value?.trim() of an environment variable
TrimOpt(opt) == IF opt.some THEN Some(Trim(opt.v)) ELSE None

extractSlackBotToken(env) ==
    LET directToken == TrimOpt(env.SLACK_FILE_BEARER_TOKEN)
        slackAppBlob == env.SLACK_APP_JETBASE_AGENT_PM_TEST
        parsed == slackAppBlob.v
        tokenCandidate == IF parsed.nested.some THEN parsed.nested
                          ELSE parsed.fallback
    IN  IF Truthy(directToken) THEN Value(directToken)
        ELSE IF ~slackAppBlob.some \/ parsed.kind = "empty" THEN Value(None)
        ELSE IF parsed.kind \in {"invalid", "null"}
        THEN Thrown("Error",
                    <<"Failed to parse SLACK_APP_JETBASE_AGENT_PM_TEST">>, None)
        ELSE IF Truthy(TrimOpt(tokenCandidate)) THEN Value(TrimOpt(tokenCandidate))
        ELSE Value(None)

loadConfig(env) ==
    LET accountUrl == env.WORKSECTION_ACCOUNT_URL
        adminApiKey == TrimOpt(env.WORKSECTION_ADMIN_API_KEY)
        normalized == normalizeAccountUrl(accountUrl.v)
        slackBotToken == extractSlackBotToken(env)
    IN  IF ~Truthy(accountUrl)
        THEN Thrown("Error", <<"Set WORKSECTION_ACCOUNT_URL">>, None)
        ELSE IF ~Truthy(adminApiKey)
        THEN Thrown("Error", <<"Set WORKSECTION_ADMIN_API_KEY">>, None)
        ELSE IF normalized.kind = "thrown" THEN normalized
        ELSE IF slackBotToken.kind = "thrown" THEN slackBotToken
        ELSE Value([accountUrl |-> normalized.value, apiKey |-> adminApiKey.v,
                       slackBotToken |-> slackBotToken.value])

\* an environment loadConfig reads the configuration c from
EnvironmentOf(c) ==
    [WORKSECTION_ACCOUNT_URL |-> Some(c.accountUrl),
     WORKSECTION_ADMIN_API_KEY |-> Some(c.apiKey),
     SLACK_FILE_BEARER_TOKEN |-> c.slackBotToken,
     SLACK_APP_JETBASE_AGENT_PM_TEST |-> None,
     WORKSECTION_TRANSPORT |-> None]

\* main has returned with the HTTP transport listening
Serving(c) ==
    [phase |-> "serving", env |-> EnvironmentOf(c), loaded |-> Value(c),
     mode |-> <<"http">>, started |-> <<"http">>, exit |-> None]

\* the state of the client between two calls: nothing of a call is kept
NoCall == [action |-> <<>>, method |-> None, params |-> None, attachments |-> None]

\* the caller has the outcome, or the tool's client its result, and the
\* invocation is over: nothing of it is kept
Settle ==
    /\ \/ pc = "done" /\ (tool = NoTool \/ result # Pending)
       \/ pc = "idle" /\ result # Pending
    /\ pc' = "idle"
    /\ tool' = NoTool
    /\ result' = Pending
    /\ inv' = NoCall
    /\ idx' = 1
    /\ payloads' = <<>>
    /\ http' = <<>>
    /\ fetched' = <<>>
    /\ received' = None
    /\ outcome' = Pending
    /\ UNCHANGED <<config, boot, prev, parked>>

\* the same, an observer remembering in prev what the call was given and what
\* hash it sent, to compare the next calls with it
SettleObserved ==
    /\ pc = "done"
    /\ tool = NoTool
    /\ pc' = "idle"
    /\ prev' = IF Len(ApiRequests) > 0
               THEN [sent |-> TRUE, action |-> inv.action, params |-> inv.params,
                     hash |-> HashOf(ApiRequests[1])]
               ELSE prev
    /\ inv' = NoCall
    /\ idx' = 1
    /\ payloads' = <<>>
    /\ http' = <<>>
    /\ fetched' = <<>>
    /\ received' = None
    /\ outcome' = Pending
    /\ UNCHANGED <<config, boot, parked, tool, result>>

Init ==
    /\ config \in Configs
    /\ pc = "idle"
    /\ inv = NoCall
    /\ idx = 1
    /\ payloads = <<>>
    /\ http = <<>>
    /\ fetched = <<>>
    /\ received = None
    /\ outcome = Pending
    /\ prev = [sent |-> FALSE]
    /\ parked = <<>>
    /\ tool = NoTool
    /\ result = Pending
    /\ boot = Serving(config)

Next ==
    \/ DirectCall(CallOptions)
    \/ ResolveAttachment
    \/ DownloadDone(DownloadResponses)
    \/ SendRequest
    \/ ApiDone(ApiResponses)
    \/ PostTask(PostTaskArgs)
    \/ PostTaskDone
    \/ GetUsers
    \/ GetUsersDone
    \/ ReadUsersResource
    \/ ReadUsersResourceDone
    \/ CompleteProjectIds(CompletionPrefixes)
    \/ CompleteProjectIdsDone
    \/ GetProjects(GetProjectsArgs)
    \/ GetProjectsDone
    \/ GetProject(GetProjectArgs)
    \/ GetProjectDone
    \/ GetTasks(GetTasksArgs)
    \/ GetTasksDone
    \/ GetTask(GetTaskArgs)
    \/ GetTaskDone
    \/ PostComment(PostCommentArgs)
    \/ PostCommentDone
    \/ GetComments(GetCommentsArgs)
    \/ GetCommentsDone
    \/ GetCosts(GetCostsArgs)
    \/ GetCostsDone
    \/ GetCostsTotal(GetCostsTotalArgs)
    \/ GetCostsTotalDone
    \/ GetTimers
    \/ GetTimersDone
    \/ ReadProjectsResource
    \/ ReadProjectsResourceDone
    \/ ReadProjectTasksResource(TemplateValues)
    \/ ReadProjectTasksResourceDone
    \/ ReadTaskResource(TemplateValues)
    \/ ReadTaskResourceDone
    \/ Settle

Spec == Init /\ [][Next]_vars

\* Calls one after the other, each compared with the last one before it
NextPair ==
    \/ DirectCall(PairOptions)
    \/ ResolveAttachment
    \/ DownloadDone(DownloadResponses)
    \/ SendRequest
    \/ ApiDone(ApiResponses)
    \/ SettleObserved

SpecPair == Init /\ [][NextPair]_vars

\* ------------------------------------------------------------------------
\* Several invocations of call in flight on one client
\* ------------------------------------------------------------------------

\* the locals of the invocation that is running
Locals ==
    [pc |-> pc, inv |-> inv, idx |-> idx, payloads |-> payloads, http |-> http,
     fetched |-> fetched, received |-> received, outcome |-> outcome]

\* the running invocation is at an await (of prepareAttachments, of the fetch
\* of a download, of the fetch of the API): it is suspended with its locals
\* and the event loop is free to run another one
Suspend ==
    /\ tool = NoTool
    /\ \/ pc \in {"download", "sent"}
       \/ pc = "resolve" /\ idx > Len(AttachmentList)
    /\ Len(parked) < MaxInFlight
    /\ parked' = Append(parked, Locals)
    /\ pc' = "idle"
    /\ inv' = NoCall
    /\ idx' = 1
    /\ payloads' = <<>>
    /\ http' = <<>>
    /\ fetched' = <<>>
    /\ received' = None
    /\ outcome' = Pending
    /\ UNCHANGED <<config, boot, prev, tool, result>>

\* the event loop runs the continuation of a suspended invocation
Resume ==
    /\ pc = "idle"
    /\ tool = NoTool
    /\ \E k \in 1..Len(parked) :
          /\ pc' = parked[k].pc
          /\ inv' = parked[k].inv
          /\ idx' = parked[k].idx
          /\ payloads' = parked[k].payloads
          /\ http' = parked[k].http
          /\ fetched' = parked[k].fetched
          /\ received' = parked[k].received
          /\ outcome' = parked[k].outcome
          /\ parked' = SubSeq(parked, 1, k - 1) \o SubSeq(parked, k + 1, Len(parked))
    /\ UNCHANGED <<config, boot, prev, tool, result>>

\* the options of the calls that are in flight together
InterleavedOptions ==
    { [method |-> Some("GET"),
       params |-> Some(<<Entry(<<"filter">>, StrV(<<"active">>))>>),
       attachments |-> None],
      [method |-> Some("POST"),
       params |-> Some(<<Entry(<<"b">>, StrV(<<"1">>)), Entry(<<"a">>, StrV(<<"2">>))>>),
       attachments |-> Some(<<
           Descriptor(<<"file">>, <<"a.png">>, Some(<<"image", "/", "png">>),
                      Some(<<1, 2>>), None),
           Descriptor(<<"doc">>, <<"r.pdf">>, None, None, Some(FileUrl))>>)],
      [method |-> None,
       params |-> None,
       attachments |-> Some(<<
           Descriptor(<<"img">>, <<"s.png">>, Some(<<"image", "/", "png">>), None,
                      Some(SlackUrl))>>)] }

\* the outcomes of their downloads
InterleavedDownloads ==
    { [kind |-> "response", status |-> 200, body |-> <<>>],
      [kind |-> "response", status |-> 200, body |-> <<7, 8>>],
      [kind |-> "response", status |-> 200, body |-> <<9>>] }

\* the outcomes of their fetches of the API
InterleavedResponses ==
    { Rejected(<<"connect ECONNREFUSED">>),
      [kind |-> "response", status |-> 200,
       body |-> [kind |-> "object", obj |-> [status |-> "ok", data |-> <<"[{id:1}]">>]]],
      [kind |-> "response", status |-> 200,
       body |-> [kind |-> "object",
                 obj |-> [status |-> "error", message |-> <<"Invalid date">>,
                          test |-> <<"YYYY-MM-DD", " ">>]]] }

\* a caller invokes call while fewer than MaxInFlight invocations are in flight
CallMeanwhile ==
    /\ Len(parked) < MaxInFlight
    /\ DirectCall(InterleavedOptions)

NextInterleaved ==
    \/ CallMeanwhile
    \/ ResolveAttachment
    \/ DownloadDone(InterleavedDownloads)
    \/ SendRequest
    \/ ApiDone(InterleavedResponses)
    \/ Settle
    \/ Suspend
    \/ Resume

SpecInterleaved == Init /\ [][NextInterleaved]_vars


\* ------------------------------------------------------------------------
\* Startup: main, from the environment to the transports
\* ------------------------------------------------------------------------

\* the client is not constructed yet
NoConfig == [accountUrl |-> <<>>, apiKey |-> <<>>, slackBotToken |-> None]

InitStartup ==
    /\ config = NoConfig
    /\ pc = "idle"
    /\ inv = NoCall
    /\ idx = 1
    /\ payloads = <<>>
    /\ http = <<>>
    /\ fetched = <<>>
    /\ received = None
    /\ outcome = Pending
    /\ prev = [sent |-> FALSE]
    /\ parked = <<>>
    /\ tool = NoTool
    /\ result = Pending
    /\ \E env \in Environments :
          boot = [phase |-> "start", env |-> env, loaded |-> Pending,
                  mode |-> <<>>, started |-> <<>>, exit |-> None]

enableHttp(mode) == mode = <<"http">> \/ mode = <<"both">>

\* stdio enabled by the value stdio alone
enableStdioAlone(mode) == mode = <<"stdio">>

enableStdio(mode) == mode = <<"stdio">> \/ mode = <<"both">>

\* process.exit(1)
Exit(b) == [b EXCEPT !.phase = "exited", !.exit = Some(1)]

\* main, up to its first await or to the exit of the process
Main ==
    /\ boot.phase = "start"
    /\ LET loaded == loadConfig(boot.env)
           transport == boot.env.WORKSECTION_TRANSPORT
           mode == toLowerCase(IF transport.some THEN transport.v ELSE <<"http">>)
           read == [boot EXCEPT !.loaded = loaded]
       IN  IF loaded.kind = "thrown"
           THEN /\ boot' = Exit(read)
                /\ UNCHANGED config
           ELSE /\ config' = loaded.value
                /\ boot' = IF ~enableHttp(mode) /\ ~enableStdio(mode)
                           THEN Exit([read EXCEPT !.mode = mode])
                           ELSE [read EXCEPT !.mode = mode,
                                             !.phase = IF enableHttp(mode)
                                                       THEN "listen" ELSE "connect"]
    /\ UNCHANGED <<pc, inv, idx, payloads, http, fetched, received, outcome,
                   prev, parked, tool, result>>

\* what becomes of app.listen
ListenOutcomes == {"listening", "error"}

\* startHttpServer's promise settles: the listener is listening and main goes
\* on, or it emitted an error and main().catch ends the process
HttpListening(outcomes) ==
    /\ boot.phase = "listen"
    /\ \E o \in outcomes :
          boot' = IF o = "error" THEN Exit(boot)
                  ELSE [boot EXCEPT !.started = Append(@, "http"),
                                    !.phase = IF enableStdio(boot.mode)
                                              THEN "connect" ELSE "serving"]
    /\ UNCHANGED <<config, pc, inv, idx, payloads, http, fetched, received,
                   outcome, prev, parked, tool, result>>

\* startStdioServer: server.connect(transport) has resolved
StdioConnected ==
    /\ boot.phase = "connect"
    /\ boot' = [boot EXCEPT !.started = Append(@, "stdio"), !.phase = "serving"]
    /\ UNCHANGED <<config, pc, inv, idx, payloads, http, fetched, received,
                   outcome, prev, parked, tool, result>>

NextStartup ==
    \/ Main
    \/ HttpListening(ListenOutcomes)
    \/ StdioConnected

SpecStartup == InitStartup /\ [][NextStartup]_vars


\* ------------------------------------------------------------------------
\* Properties
\* ------------------------------------------------------------------------

\* a call is in progress or has just ended
InCall == inv # NoCall

\* the call has ended: it returned or threw
CallEnded == pc = "done" /\ InCall

\* the call has ended with an error of the given name
Threw(name) == CallEnded /\ outcome.kind = "thrown" /\ outcome.name = name

BothSources(d) == d.data.some /\ d.sourceUrl.some

NoSource(d) == ~d.data.some /\ ~d.sourceUrl.some

\* a download that gave the bytes of the attachment
DownloadOk(r) ==
    r.kind = "response" /\ r.status \in 200..299 /\ Len(r.body) > 0

\* C1: a call whose attachments list holds, at any position, a descriptor with
\* both data and sourceUrl or with neither fails with a WorksectionApiError,
\* and has issued no HTTP request of any kind.
C1_NoRequestForUnsendable ==
    (InCall /\ \E i \in 1..Len(AttachmentList) :
                   BothSources(AttachmentList[i]) \/ NoSource(AttachmentList[i]))
    => /\ http = <<>>
       /\ pc = "done" => Threw("WorksectionApiError")

\* C2: the request to the API is sent only after every attachment has been
\* resolved; a failed resolution ends the call at once, with the error of that
\* attachment (the first one met, every attachment before it being resolved)
\* and without any request to the API.
C2_NoPartialSubmission ==
    /\ \A i \in 1..Len(fetched) :
          ~DownloadOk(fetched[i])
          => i = Len(fetched) /\ ApiRequests = <<>> /\ Threw("WorksectionApiError")
    /\ ApiRequests # <<>>
       => /\ Len(payloads) = Len(AttachmentList)
          /\ \A i \in 1..Len(AttachmentList) :
                /\ ~BothSources(AttachmentList[i]) /\ ~NoSource(AttachmentList[i])
                /\ payloads[i].filename = AttachmentList[i].filename
                /\ payloads[i].field = AttachmentList[i].field
          /\ \A i \in 1..Len(fetched) : DownloadOk(fetched[i])
    /\ (CallEnded /\ ApiRequests = <<>>)
       => /\ Threw("WorksectionApiError")
          /\ Len(payloads) < Len(AttachmentList)
          /\ LET culprit == AttachmentList[Len(payloads) + 1]
             IN  \/ BothSources(culprit) /\ Contains(outcome.message, culprit.filename)
                 \/ NoSource(culprit) /\ Contains(outcome.message, culprit.filename)
                 \/ /\ ~culprit.data.some /\ culprit.sourceUrl.some
                    /\ fetched # <<>> /\ ~DownloadOk(Last(fetched))

\* the second of two attachments fails to download after the first was resolved
C2_Witness ==
    /\ CallEnded
    /\ Len(AttachmentList) = 2
    /\ Len(payloads) = 1
    /\ fetched # <<>> /\ ~DownloadOk(Last(fetched))
    /\ ApiRequests = <<>>

\* C3: call returns a value exactly when the response has a 2xx status and its
\* body is a JSON envelope whose status is "ok".
C3_ReturnsIffOk ==
    CallEnded
    => (outcome.kind = "returned"
        <=> /\ received.some
            /\ received.v.kind = "response"
            /\ received.v.status \in 200..299
            /\ received.v.body.kind = "object"
            /\ "status" \in DOMAIN received.v.body.obj
            /\ received.v.body.obj.status = "ok")

\* a response that is not 2xx and carries an ok envelope makes the call fail
C3_Witness ==
    /\ CallEnded
    /\ received.some /\ received.v.kind = "response"
    /\ received.v.status = 500
    /\ received.v.body.kind = "object"
    /\ "status" \in DOMAIN received.v.body.obj
    /\ received.v.body.obj.status = "ok"
    /\ outcome.kind = "thrown"

\* C4 as stated: every invocation of call issues exactly one request to the
\* API.
C4_ExactlyOneRequest == CallEnded => Len(ApiRequests) = 1

\* C4 as amended: a call never issues a second request to the API; it issues
\* one exactly when all its attachments were resolved, and it ends with the
\* outcome of that one request, whatever it is.
C4_AtMostOneRequest ==
    /\ Len(ApiRequests) <= 1
    /\ CallEnded
       => (Len(ApiRequests) = 1 <=> Len(payloads) = Len(AttachmentList))
    /\ received.some => pc = "done" /\ Len(ApiRequests) = 1

\* the API could not be reached and the call ended after its one request
C4_Witness ==
    /\ CallEnded
    /\ received.some /\ received.v.kind = "rejected"
    /\ Len(ApiRequests) = 1
    /\ outcome.kind = "thrown"

\* C5: whatever makes call fail, the error it throws is a WorksectionApiError.
C5_OnlyApiErrors ==
    (CallEnded /\ outcome.kind = "thrown") => outcome.name = "WorksectionApiError"


\* the field sequences a request to the API carries, as its receiver reads
\* them: from the query string and from the body
Carried(request) ==
    (IF request.search # <<>> THEN {ParseUrlEncoded(request.search)} ELSE {})
    \cup
    (IF request.body.kind = "urlencoded" THEN {ParseUrlEncoded(request.body.text)}
     ELSE IF request.body.kind = "multipart"
     THEN LET fields == SelectSeq(request.body.parts, LAMBDA part : part.kind = "field")
          IN  {[i \in 1..Len(fields) |-> <<fields[i].name, fields[i].value>>]}
     ELSE {})

\* the number of pairs a parameter value stands for
PairCount(value) ==
    IF value.t \in {"null", "undefined"} THEN 0
    ELSE IF value.t = "array"
    THEN Cardinality({i \in 1..Len(value.v) : value.v[i].t \notin {"null", "undefined"}})
    ELSE 1

RECURSIVE PairTotal(_)
PairTotal(entries) ==
    IF entries = <<>> THEN 0
    ELSE PairCount(Head(entries).value) + PairTotal(Tail(entries))

\* the entries of the params of the call in progress, in insertion order
GivenEntries == IF inv.params.some THEN inv.params.v ELSE <<>>

\* the requests to the API that are in flight: a request is looked at when it
\* is sent, nothing of it changes afterwards
Outgoing == IF pc = "sent" THEN ApiRequests ELSE <<>>

\* C6: the fields of every request to the API start with action and end with
\* one appended hash field; the hash is the digest of the url-encoded string
\* of the fields before it, in their order, followed by the API key.
C6_HashSignsPrecedingFields ==
    \A i \in 1..Len(Outgoing) :
        /\ Carried(Outgoing[i]) # {}
        /\ \A fields \in Carried(Outgoing[i]) :
              /\ Len(fields) = 1 + PairTotal(GivenEntries) + 1
              /\ fields[1] = <<<<"action">>, inv.action>>
              /\ Last(fields)[1] = <<"hash">>
              /\ Last(fields)[2] =
                    <<Md5Hex(Cat(SearchParamsToString(Front(fields)))
                             \o Cat(config.apiKey))>>

\* a request was sent for params that hold keys named hash and action
C6_Witness ==
    /\ ApiRequests # <<>>
    /\ \E i \in 1..Len(GivenEntries) : GivenEntries[i].key = <<"hash">>
    /\ \E i \in 1..Len(GivenEntries) : GivenEntries[i].key = <<"action">>

\* the canonical pairs of an action and a params option
CanonicalPairs(action, params) == buildParamState(action, prepareParams(params)).encoded

\* two sequences hold the same elements the same number of times
SameBag(a, b) ==
    /\ Len(a) = Len(b)
    /\ \A x \in {a[i] : i \in 1..Len(a)} \cup {b[i] : i \in 1..Len(b)} :
          Cardinality({i \in 1..Len(a) : a[i] = x})
          = Cardinality({i \in 1..Len(b) : b[i] = x})

\* C7: a call given the same action and params as an earlier call of the
\* client sends the same hash, whatever the method, the attachments and the
\* responses of the two calls; a call whose canonical pairs are those of the
\* earlier call in another order sends another hash.
C7_DigestIsPure ==
    (prev.sent /\ Outgoing # <<>>)
    => LET hash == HashOf(Outgoing[1])
           mine == CanonicalPairs(inv.action, inv.params)
           theirs == CanonicalPairs(prev.action, prev.params)
       IN  /\ (prev.action = inv.action /\ prev.params = inv.params)
              => hash = prev.hash
           /\ (SameBag(mine, theirs) /\ mine # theirs) => hash # prev.hash

\* a call with a downloaded attachment repeats the action and params of an
\* earlier call
C7_Witness ==
    /\ prev.sent /\ ApiRequests # <<>>
    /\ prev.action = inv.action /\ prev.params = inv.params
    /\ inv.params.some
    /\ fetched # <<>>

\* C8: with a non-empty attachments list the request is a POST with a
\* multipart body holding one file per attachment, whatever method was asked
\* for; without attachments a POST goes with a url-encoded body.
C8_AttachmentsForceMultipart ==
    \A i \in 1..Len(Outgoing) :
        LET request == Outgoing[i]
        IN  /\ Len(AttachmentList) > 0
               => /\ request.method = "POST"
                  /\ request.body.kind = "multipart"
                  /\ Len(SelectSeq(request.body.parts, LAMBDA part : part.kind = "file"))
                     = Len(AttachmentList)
            /\ (Len(AttachmentList) = 0 /\ inv.method = Some("POST"))
               => /\ request.method = "POST"
                  /\ request.body.kind = "urlencoded"

\* a call with an attachment that asked for GET has sent its request
C8_Witness ==
    /\ ApiRequests # <<>>
    /\ Len(AttachmentList) > 0
    /\ inv.method = Some("GET")

\* C9: without attachments the request has the method asked for, GET when
\* none was; a GET carries the signed fields in the query string of
\* <accountUrl>api/admin/v2 and has no body and no Content-Type; a POST carries
\* them in a url-encoded body with that Content-Type, and no query string.
C9_MethodHonoured ==
    \A i \in 1..Len(Outgoing) :
        LET request == Outgoing[i]
            signed(text) == LET fields == ParseUrlEncoded(text)
                            IN  /\ Len(fields) = 1 + PairTotal(GivenEntries) + 1
                                /\ fields[1][1] = <<"action">>
                                /\ Last(fields)[1] = <<"hash">>
        IN  Len(AttachmentList) = 0
            => /\ request.method = (IF inv.method.some THEN inv.method.v ELSE "GET")
               /\ request.url = config.accountUrl \o <<"api", "/", "admin", "/", "v2">>
               /\ request.method = "GET"
                  => /\ signed(request.search)
                     /\ request.body.kind = "none"
                     /\ "Content-Type" \notin DOMAIN request.headers
               /\ request.method = "POST"
                  => /\ request.search = <<>>
                     /\ request.body.kind = "urlencoded"
                     /\ signed(request.body.text)
                     /\ "Content-Type" \in DOMAIN request.headers
                     /\ request.headers["Content-Type"]
                        = <<"application", "/", "x-www-form-urlencoded">>

\* a call without method and attachments has sent its GET, the account URL
\* having a path
C9_Witness ==
    /\ ApiRequests # <<>>
    /\ Len(AttachmentList) = 0
    /\ inv.method = None
    /\ ApiRequests[1].method = "GET"
    /\ \E i \in 1..Len(config.accountUrl) : config.accountUrl[i] = "team"

\* C10: no request to the API carries a file without bytes; a call given one
\* inline attachment without bytes fails with an error that names its
\* filename, without any HTTP request, and so does a post_task given an
\* attachment whose base64 decodes to no byte.
C10_NoEmptyAttachment ==
    /\ \A i \in 1..Len(ApiRequests) :
          ApiRequests[i].body.kind = "multipart"
          => \A k \in 1..Len(ApiRequests[i].body.parts) :
                ApiRequests[i].body.parts[k].kind = "file"
                => Len(ApiRequests[i].body.parts[k].data) > 0
    /\ (/\ CallEnded
        /\ Len(AttachmentList) = 1
        /\ AttachmentList[1].data.some
        /\ Len(AttachmentList[1].data.v) = 0)
       => /\ http = <<>>
          /\ outcome.kind = "thrown"
          /\ Contains(outcome.message, AttachmentList[1].filename)
    /\ (tool.name = "post_task" /\ tool.args.attachments.some)
       => LET given == tool.args.attachments.v
              blank == {i \in 1..Len(given) :
                          given[i].data.some /\ Len(Base64Decode(given[i].data.v)) = 0}
          IN  blank # {}
              => /\ http = <<>>
                 /\ result # Pending
                 /\ result.isError
                 /\ \E i \in blank : Contains(result.text, given[i].filename)

\* the attachment whose resolution ended the call
Culprit == AttachmentList[Len(payloads) + 1]

\* C11: when the download of a remote attachment fails (the fetch rejects, the
\* status is not 2xx, or the body has no byte), call throws a
\* WorksectionApiError whose message names the source URL of the attachment
\* and, when the status is not 2xx, the HTTP status.
C11_DownloadErrorNamesUrl ==
    (CallEnded /\ fetched # <<>> /\ ~DownloadOk(Last(fetched)))
    => LET r == Last(fetched)
       IN  /\ Threw("WorksectionApiError")
           /\ Contains(outcome.message, Culprit.sourceUrl.v)
           /\ (r.kind = "response" /\ r.status \notin 200..299)
              => Contains(outcome.message, <<ToString(r.status)>>)

\* a descriptor whose bytes are to be downloaded
IsRemote(d) == ~d.data.some /\ d.sourceUrl.some

\* the attachments the loop of prepareAttachments has come to so far
Reached ==
    SubSeq(AttachmentList, 1,
           IF pc = "resolve" \/ idx > Len(AttachmentList) THEN idx - 1 ELSE idx)

\* the request is a GET to the url, with the bearer token of the configuration
\* exactly when there is one
IsDownloadOf(request, url) ==
    /\ request.method = "GET"
    /\ request.url = url
    /\ request.body.kind = "none"
    /\ "Authorization" \in DOMAIN request.headers <=> config.slackBotToken.some
    /\ config.slackBotToken.some
       => request.headers["Authorization"] = <<"Bearer", " ">> \o config.slackBotToken.v

\* C12 as stated: a call that has ended has issued one GET for each attachment
\* of its list given by sourceUrl, with the bearer token exactly when the
\* configuration has one, and no other download.
C12_OneGetPerSourceUrl ==
    CallEnded
    => LET remote == SelectSeq(AttachmentList, IsRemote)
       IN  /\ Len(Downloads) = Len(remote)
           /\ \A i \in 1..Len(remote) : IsDownloadOf(Downloads[i], remote[i].sourceUrl.v)

\* C12 as amended: the downloads of a call are, in order, one GET for each
\* attachment given by sourceUrl alone that the loop has come to (all of them
\* once the request to the API is sent), each to the URL of its attachment and
\* with the bearer token exactly when the configuration has one; each download
\* gets one response and is not issued again; inline attachments cause none.
C12_OneGetPerResolvedSourceUrl ==
    LET remote == SelectSeq(Reached, IsRemote)
    IN  /\ Len(Downloads) = Len(remote)
        /\ \A i \in 1..Len(remote) : IsDownloadOf(Downloads[i], remote[i].sourceUrl.v)
        /\ Len(fetched) = IF pc = "download" THEN Len(Downloads) - 1 ELSE Len(Downloads)
        /\ ApiRequests # <<>> => Len(Downloads) = Len(SelectSeq(AttachmentList, IsRemote))

\* two attachments were downloaded from two URLs with the bearer token, and the
\* request to the API was sent
C12_Witness ==
    /\ ApiRequests # <<>>
    /\ Len(Downloads) = 2
    /\ Downloads[1].url # Downloads[2].url
    /\ config.slackBotToken.some
    /\ "Authorization" \in DOMAIN Downloads[1].headers

\* the text a primitive is sent as
TextOf(value) ==
    CASE value.t = "boolean" -> IF value.v THEN <<"1">> ELSE <<"0">>
      [] value.t = "number" -> <<ToString(value.v)>>
      [] value.t = "string" -> value.v

\* the pairs an entry of the params stands for: none for null and undefined,
\* one per element for a list, one otherwise
PairsOfEntry(e) ==
    IF e.value.t \in {"null", "undefined"} THEN <<>>
    ELSE IF e.value.t = "array"
    THEN [k \in 1..Len(e.value.v) |->
             <<e.key \o <<"[", ToString(k - 1), "]">>, TextOf(e.value.v[k])>>]
    ELSE << <<e.key, TextOf(e.value)>> >>

\* the action pair followed by the pairs of the entries, in their order
ExpectedQuery(action, entries) ==
    << <<<<"action">>, action>> >>
    \o Flatten([i \in 1..Len(entries) |-> PairsOfEntry(entries[i])])

\* the entries in the order a JavaScript object enumerates its own keys: the
\* keys that are array indices in ascending order, then the others as inserted
EnumerationOrder(entries) ==
    LET indexed == SelectSeq(entries, LAMBDA e : IsArrayIndex(e.key))
        named == SelectSeq(entries, LAMBDA e : ~IsArrayIndex(e.key))
        smaller(e) == {j \in 1..Len(indexed) :
                         ArrayIndexOf(indexed[j].key) < ArrayIndexOf(e.key)}
    IN  [k \in 1..Len(indexed) |->
            indexed[CHOOSE i \in 1..Len(indexed) :
                       Cardinality(smaller(indexed[i])) = k - 1]]
        \o named

\* C13 as stated: the fields a request carries before the hash are the action
\* pair followed by the pairs of the params entries in insertion order, a
\* list standing for one pair key[i] per element.
C13_PairsInInsertionOrder ==
    \A i \in 1..Len(Outgoing) :
        \A fields \in Carried(Outgoing[i]) :
            Front(fields) = ExpectedQuery(inv.action, GivenEntries)

\* C13 as amended: the same, the params entries taken in the enumeration order
\* of the params object (insertion order but for keys that are array indices).
C13_PairsInEnumerationOrder ==
    \A i \in 1..Len(Outgoing) :
        /\ Carried(Outgoing[i]) # {}
        /\ \A fields \in Carried(Outgoing[i]) :
              Front(fields) = ExpectedQuery(inv.action, EnumerationOrder(GivenEntries))

\* a request was sent for params that hold a list of two elements
C13_Witness ==
    /\ ApiRequests # <<>>
    /\ \E i \in 1..Len(GivenEntries) :
          GivenEntries[i].value.t = "array" /\ Len(GivenEntries[i].value.v) = 2

\* the values of the fields of a given name
ValuesNamed(fields, name) ==
    LET named == SelectSeq(fields, LAMBDA f : f[1] = name)
    IN  [k \in 1..Len(named) |-> named[k][2]]

\* the entries of a params option that are neither null nor undefined
Strip(params) ==
    IF params.some
    THEN SelectSeq(params.v, LAMBDA e : e.value.t \notin {"null", "undefined"})
    ELSE <<>>

\* C14: in the fields of a request, between action and hash, a boolean
\* parameter is "1" or "0" (also as the element of a list), a number or string
\* its text, and a null or undefined parameter is no field at all; a call
\* whose params differ from those of an earlier call of the same action only
\* by null or undefined entries sends the same hash.
C14_BooleansAndNulls ==
    /\ \A i \in 1..Len(Outgoing) :
          \A fields \in Carried(Outgoing[i]) :
              LET mid == SubSeq(fields, 2, Len(fields) - 1)
              IN  /\ Len(mid) = PairTotal(GivenEntries)
                  /\ \A k \in 1..Len(GivenEntries) :
                        LET e == GivenEntries[k]
                            item(j) == e.key \o <<"[", ToString(j - 1), "]">>
                        IN  CASE e.value.t = "boolean" ->
                                   ValuesNamed(mid, e.key)
                                   = << IF e.value.v THEN <<"1">> ELSE <<"0">> >>
                              [] e.value.t = "number" ->
                                   ValuesNamed(mid, e.key) = << <<ToString(e.value.v)>> >>
                              [] e.value.t = "string" ->
                                   ValuesNamed(mid, e.key) = <<e.value.v>>
                              [] e.value.t \in {"null", "undefined"} ->
                                   ValuesNamed(mid, e.key) = <<>>
                              [] e.value.t = "array" ->
                                   /\ ValuesNamed(mid, e.key) = <<>>
                                   /\ \A j \in 1..Len(e.value.v) :
                                         ValuesNamed(mid, item(j))
                                         = << IF e.value.v[j].t = "boolean"
                                              THEN (IF e.value.v[j].v THEN <<"1">>
                                                    ELSE <<"0">>)
                                              ELSE TextOf(e.value.v[j]) >>
    /\ (/\ prev.sent
        /\ Outgoing # <<>>
        /\ prev.action = inv.action
        /\ Strip(prev.params) = Strip(inv.params))
       => HashOf(Outgoing[1]) = prev.hash

\* a call follows a call of the same action whose params differ from its own
\* only by an undefined entry
C14_Witness ==
    /\ prev.sent
    /\ ApiRequests # <<>>
    /\ prev.action = inv.action
    /\ prev.params # inv.params
    /\ Strip(prev.params) = Strip(inv.params)
    /\ Strip(inv.params) # <<>>

\* the bytes the attachment at a position of the list stands for: its inline
\* data, or the body of the response to its download
BytesOf(i) ==
    IF AttachmentList[i].data.some THEN AttachmentList[i].data.v
    ELSE fetched[Len(SelectSeq(SubSeq(AttachmentList, 1, i), IsRemote))].body

\* C15: the parts of a multipart request are, in order, one field per pair of
\* the canonical query, the hash field, then one file per attachment of the
\* list in its order, under its field name, with its filename, its bytes and
\* its content type, application/octet-stream when it has none.
C15_MultipartPartsInOrder ==
    \A i \in 1..Len(Outgoing) :
        Outgoing[i].body.kind = "multipart"
        => LET parts == Outgoing[i].body.parts
               query == ExpectedQuery(inv.action, EnumerationOrder(GivenEntries))
               n == Len(query)
               m == Len(AttachmentList)
           IN  /\ Len(parts) = n + 1 + m
               /\ \A k \in 1..n :
                     /\ parts[k].kind = "field"
                     /\ <<parts[k].name, parts[k].value>> = query[k]
               /\ parts[n + 1].kind = "field"
               /\ parts[n + 1].name = <<"hash">>
               /\ parts[n + 1].value
                  = <<Md5Hex(Cat(SearchParamsToString(query)) \o Cat(config.apiKey))>>
               /\ \A k \in 1..m :
                     LET part == parts[n + 1 + k]
                         given == AttachmentList[k]
                     IN  /\ part.kind = "file"
                         /\ part.name = given.field
                         /\ part.filename = given.filename
                         /\ part.data = BytesOf(k)
                         /\ part.type = IF given.contentType.some
                                           /\ given.contentType.v # <<>>
                                        THEN given.contentType.v
                                        ELSE <<"application", "/", "octet-stream">>

\* a multipart request carries two files, the first without a content type
\* and the second downloaded, after the fields of a list parameter
C15_Witness ==
    /\ Outgoing # <<>>
    /\ Outgoing[1].body.kind = "multipart"
    /\ Len(AttachmentList) = 2
    /\ ~AttachmentList[1].contentType.some
    /\ AttachmentList[2].contentType.some
    /\ IsRemote(AttachmentList[2])
    /\ \E k \in 1..Len(GivenEntries) : GivenEntries[k].value.t = "array"

\* the call has ended with the given kind of answer of the API
Answered == CallEnded /\ received.some

\* the API answered 2xx with a JSON object that is not an ok envelope
EnvelopeFailure ==
    /\ Answered
    /\ received.v.kind = "response"
    /\ received.v.status \in 200..299
    /\ received.v.body.kind = "object"
    /\ ("status" \notin DOMAIN received.v.body.obj
        \/ received.v.body.obj.status # "ok")

\* C16: the statusCode of the error call throws is absent when the API could
\* not be reached, the HTTP status when the response is not 2xx, and the
\* status_code of the envelope (absent when it has none) when a 2xx response
\* has an envelope that is not ok; the message of a network failure holds the
\* text of its cause, that of a non-2xx failure the status and reason phrase.
C16_StatusCodeTellsLayer ==
    /\ (Answered /\ received.v.kind = "rejected")
       => /\ Threw("WorksectionApiError")
          /\ outcome.statusCode = None
          /\ Contains(outcome.message, received.v.cause)
    /\ (Answered /\ received.v.kind = "response"
                 /\ received.v.status \notin 200..299)
       => /\ Threw("WorksectionApiError")
          /\ outcome.statusCode = Some(received.v.status)
          /\ Contains(outcome.message, <<ToString(received.v.status)>>)
          /\ Contains(outcome.message, StatusText(received.v.status))
    /\ EnvelopeFailure
       => /\ Threw("WorksectionApiError")
          /\ outcome.statusCode
             = IF "status_code" \in DOMAIN received.v.body.obj
               THEN Some(received.v.body.obj.status_code) ELSE None

\* a 2xx response with an error envelope that has a status_code ended the call
C16_Witness ==
    /\ EnvelopeFailure
    /\ "status_code" \in DOMAIN received.v.body.obj
    /\ outcome.statusCode.some
    /\ outcome.statusCode.v # received.v.status

\* C17: for a 2xx response with an envelope that is not ok, the message of the
\* error is the message of the envelope, or a default text when it has none,
\* then the field detail when the envelope has message_details, then the
\* format hint when it has test, and nothing else.
C17_MessageInPriorityOrder ==
    EnvelopeFailure
    => LET json == received.v.body.obj
           given(f) == f \in DOMAIN json /\ json[f] # <<>>
           base == IF "message" \in DOMAIN json THEN json.message
                   ELSE <<"Worksection API returned an error">>
           b == Len(base)
           d == IF given("message_details") THEN Len(json.message_details) + 2 ELSE 0
           t == IF given("test") THEN Len(Trim(json.test)) + 1 ELSE 0
           text == outcome.message
       IN  /\ Len(text) = b + d + t
           /\ SubSeq(text, 1, b) = base
           /\ given("message_details")
              => /\ text[b + 1] = " (field: "
                 /\ SubSeq(text, b + 2, b + d - 1) = json.message_details
                 /\ text[b + d] = ")"
           /\ given("test")
              => /\ text[b + d + 1] = ". Expected format: "
                 /\ SubSeq(text, b + d + 2, b + d + t) = Trim(json.test)
                 /\ \/ Trim(json.test) = <<>>
                    \/ Head(Trim(json.test)) # " " /\ Last(Trim(json.test)) # " "

\* the envelope of the failure has a message, message_details and test
C17_Witness ==
    /\ EnvelopeFailure
    /\ {"message", "message_details", "test"} \subseteq DOMAIN received.v.body.obj
    /\ Contains(outcome.message, <<"Field is required">>)
    /\ Contains(outcome.message, <<"filter">>)

\* C18: when call returns, what it returns is the parsed body of the response,
\* every field of it as received and no other.
C18_EnvelopeReturnedAsIs ==
    (CallEnded /\ outcome.kind = "returned")
    => /\ received.some
       /\ received.v.kind = "response"
       /\ received.v.body.kind = "object"
       /\ outcome.value = received.v.body.obj

\* call returned an envelope that has data
C18_Witness ==
    /\ CallEnded
    /\ outcome.kind = "returned"
    /\ DOMAIN outcome.value = {"status", "data"}
    /\ outcome.value.data = <<"[{id:1}]">>

\* the invocations of call in flight: the running one and the suspended ones
InFlight ==
    (IF pc # "idle" THEN {Locals} ELSE {}) \cup {parked[k] : k \in 1..Len(parked)}

RECURSIVE AloneFrom(_, _, _, _, _)
\* what the attachment resolution of a call running alone comes to from the
\* attachment at position i on, given the responses to its downloads that are
\* still to come, the payloads and the requests it has so far
AloneFrom(options, responses, i, pays, reqs) ==
    LET list == IF options.attachments.some THEN options.attachments.v ELSE <<>>
        given == list[i]
        url == given.sourceUrl.v
        asked == Append(reqs, DownloadRequest(url))
        stop(issued, ending) ==
            [http |-> issued, payloads |-> pays, outcome |-> ending, resolved |-> FALSE]
        fail(issued, text) == stop(issued, WorksectionApiError(text, None))
    IN  IF i > Len(list)
        THEN [http |-> reqs, payloads |-> pays, outcome |-> Pending, resolved |-> TRUE]
        ELSE IF given.data.some /\ Truthy(given.sourceUrl)
        THEN fail(reqs, <<"Attachment \"">> \o given.filename
                        \o <<"\" cannot define both data and sourceUrl.">>)
        ELSE IF given.data.some
        THEN AloneFrom(options, responses, i + 1,
                       Append(pays, Payload(given, given.data.v)), reqs)
        ELSE IF ~Truthy(given.sourceUrl)
        THEN fail(reqs, <<"Attachment \"">> \o given.filename
                 \o <<"\" must include base64 data or a download URL (sourceUrl).">>)
        ELSE IF responses = <<>>
        THEN stop(asked, Pending)
        ELSE LET r == Head(responses)
             IN  IF r.kind = "rejected"
                 THEN fail(asked, <<"Failed to download attachment from ">> \o url
                                  \o <<": ">> \o r.cause)
                 ELSE IF r.status \notin 200..299
                 THEN fail(asked, <<"Downloading attachment failed (",
                                    ToString(r.status), "): ">> \o StatusText(r.status))
                 ELSE IF Len(r.body) = 0
                 THEN fail(asked, <<"Attachment at ">> \o url \o <<" is empty.">>)
                 ELSE AloneFrom(options, Tail(responses), i + 1,
                                Append(pays, Payload(given, r.body)), asked)

\* the requests and the outcome of a call running alone, for the options and
\* the responses of an invocation
AloneRun(c) ==
    LET a == AloneFrom(c.inv, c.fetched, 1, <<>>, <<>>)
    IN  IF ~a.resolved THEN [http |-> a.http, outcome |-> a.outcome]
        ELSE [http |-> Append(a.http, ApiRequest(c.inv.action, c.inv, a.payloads)),
              outcome |-> IF c.received.some THEN Interpret(c.received.v)
                          ELSE Pending]

\* every invocation in flight that waits for a response or has ended has
\* issued the requests, and has the outcome, of a call running alone
EachAsAlone ==
    \A c \in InFlight :
        c.pc \in {"download", "sent", "done"}
        => /\ c.http = AloneRun(c).http
           /\ c.outcome = AloneRun(c).outcome

\* C19: however the invocations of call in flight on one client interleave,
\* each one issues the requests and comes to the outcome of a call running
\* alone with its options and its responses; no step changes the
\* configuration, the options of the running invocation or those of a
\* suspended one.
C19_CallsShareNoState ==
    /\ []EachAsAlone
    /\ [][/\ config' = config
          /\ (pc # "idle" /\ pc' # "idle") => inv' = inv
          /\ Len(parked') = Len(parked)
             => \A k \in 1..Len(parked) : parked'[k].inv = parked[k].inv]_vars

\* two invocations with different options are in flight, both after a
\* download of theirs, one suspended with its request to the API sent and
\* the other ended
C19_Witness ==
    /\ Len(parked) = 1
    /\ pc = "done"
    /\ parked[1].pc = "sent"
    /\ parked[1].inv # inv
    /\ parked[1].fetched # <<>>
    /\ fetched # <<>>
    /\ outcome.kind = "returned"

\* C20: when the call a tool, a resource callback or the projectId completion
\* made has failed, what the handler gives its caller is a failure: an error
\* result whose text is the message of the error, or the error itself.
C20_FailureSurfaced ==
    (/\ tool # NoTool
     /\ result # Pending
     /\ pc = "done"
     /\ outcome.kind = "thrown")
    => \/ /\ "isError" \in DOMAIN result
          /\ result.isError
          /\ result.text = outcome.message
       \/ /\ "rejected" \in DOMAIN result
          /\ result.rejected = outcome

\* an environment variable that is missing or blank
Blank(opt) == ~opt.some \/ Trim(opt.v) = <<>>

\* the text of an absolute URL: a scheme, "://", a host, then path and query,
\* with no space anywhere
WellFormedAbsolute(url) ==
    /\ Len(url) >= 5
    /\ url[1] \in {"http", "https"}
    /\ <<url[2], url[3], url[4]>> = <<":", "/", "/">>
    /\ url[5] \notin {":", "/", "?", " "}
    /\ \A i \in 1..Len(url) : url[i] # " "

\* C21: loadConfig throws or returns a configuration whose apiKey is trimmed
\* and non-empty and whose accountUrl is a well-formed absolute URL ending
\* with "/", which normalizeAccountUrl leaves as it is; with
\* WORKSECTION_ACCOUNT_URL or WORKSECTION_ADMIN_API_KEY missing or blank it
\* throws
C21_LoadedConfigIsNormalised ==
    boot.loaded # Pending =>
        /\ boot.loaded.kind \in {"returned", "thrown"}
        /\ boot.loaded.kind = "returned" =>
              LET c == boot.loaded.value
              IN  /\ c.apiKey # <<>>
                  /\ Trim(c.apiKey) = c.apiKey
                  /\ WellFormedAbsolute(c.accountUrl)
                  /\ Last(c.accountUrl) = "/"
                  /\ normalizeAccountUrl(c.accountUrl) = Value(c.accountUrl)
                  /\ config = c
        /\ (Blank(boot.env.WORKSECTION_ACCOUNT_URL)
              \/ Blank(boot.env.WORKSECTION_ADMIN_API_KEY)) =>
              boot.loaded.kind = "thrown"

\* loadConfig returned a configuration whose URL it had to complete and whose
\* key it had to trim
C21_Witness ==
    /\ boot.loaded.kind = "returned"
    /\ boot.env.WORKSECTION_ACCOUNT_URL.v =
          <<"https", ":", "/", "/", "ws.example", "/", "team">>
    /\ boot.env.WORKSECTION_ADMIN_API_KEY.v = <<" ", "s3cr3t", " ">>
    /\ config.accountUrl = <<"https", ":", "/", "/", "ws.example", "/", "team", "/">>
    /\ config.apiKey = <<"s3cr3t">>

\* the spellings of a transport name, letter case apart
Spellings(word) ==
    CASE word = "http" -> {"http", "HTTP", "Http"}
      [] word = "stdio" -> {"stdio", "STDIO", "Stdio"}
      [] word = "both" -> {"both", "BOTH", "Both"}

\* WORKSECTION_TRANSPORT names the transport word, or word is http and it is
\* unset
Names(env, word) ==
    LET value == env.WORKSECTION_TRANSPORT
    IN  IF value.some THEN \E w \in Spellings(word) : value.v = <<w>>
        ELSE word = "http"

\* the transports WORKSECTION_TRANSPORT selects, in the order of their start;
\* none for any other value
Selected(env) ==
    CASE Names(env, "http") -> <<"http">>
      [] Names(env, "stdio") -> <<"stdio">>
      [] Names(env, "both") -> <<"http", "stdio">>
      [] OTHER -> <<>>

\* main is over: every selected transport is up, or the process has exited
StartupOver == boot.phase \in {"serving", "exited"}

Failure == Some(1)

\* the configuration does not load or WORKSECTION_TRANSPORT selects nothing
Unstartable ==
    loadConfig(boot.env).kind = "thrown" \/ Selected(boot.env) = <<>>

\* the transports started so far are the first of those selected, in order
StartedInOrder ==
    /\ Len(boot.started) <= Len(Selected(boot.env))
    /\ boot.started = SubSeq(Selected(boot.env), 1, Len(boot.started))

\* the process exits with a failure only once main has run, and then starts
\* nothing more
ExitIsFinal ==
    boot.exit # None <=> boot.phase = "exited"

\* C25 as stated: when startup is over the transports started are exactly
\* those WORKSECTION_TRANSPORT selects, the HTTP listener before stdio; with
\* any other value or a configuration that does not load the process exits
\* with a failure having started none
C25_TransportsAsSelected ==
    /\ StartedInOrder
    /\ ExitIsFinal
    /\ Unstartable /\ boot.phase # "start" =>
          boot.exit = Failure /\ boot.started = <<>>
    /\ StartupOver /\ ~Unstartable => boot.started = Selected(boot.env)

\* C25, amended: as stated whenever the HTTP listener, if selected, comes to
\* listen; when it fails to, the process exits with a failure and no
\* transport is started
C25_TransportsAsSelectedWhenListening ==
    /\ StartedInOrder
    /\ ExitIsFinal
    /\ Unstartable /\ boot.phase # "start" =>
          boot.exit = Failure /\ boot.started = <<>>
    /\ StartupOver /\ ~Unstartable =>
          \/ boot.exit = None /\ boot.started = Selected(boot.env)
          \/ /\ boot.exit = Failure
             /\ Head(Selected(boot.env)) = "http"
             /\ boot.started = <<>>

\* both transports were selected, in capitals, and both are up, HTTP first
C25_Witness ==
    /\ boot.env.WORKSECTION_TRANSPORT = Some(<<"Both">>)
    /\ boot.phase = "serving"
    /\ boot.started = <<"http", "stdio">>

\* the handler in progress was given an include argument
HasInclude == "args" \in DOMAIN tool /\ "include" \in DOMAIN tool.args

\* the elements joined by a separator
JoinedBy(values, separator) ==
    Flatten([i \in 1..Len(values) |->
                IF i = 1 THEN values[i] ELSE separator \o values[i]])

\* C22: the request of a tool invoked with a non-empty include carries one
\* extra parameter, the elements of include joined by a comma in their order;
\* with include absent or empty it carries no extra parameter
C22_ExtraJoinsIncludeByComma ==
    \A i \in 1..Len(Outgoing) :
        HasInclude =>
            \A fields \in Carried(Outgoing[i]) :
                ValuesNamed(fields, <<"extra">>) =
                    IF tool.args.include.some /\ Len(tool.args.include.v) > 0
                    THEN <<JoinedBy(tool.args.include.v, <<",">>)>>
                    ELSE <<>>

\* the handler in progress is the one of the named tool or resource
Handling(name) == tool.name = name

\* the handler in progress has returned an error result
ErrorResult == result # Pending /\ "isError" \in DOMAIN result /\ result.isError

\* the handler in progress has made no call of the client and sent nothing
NothingSent == ~InCall /\ http = <<>>

\* the handler in progress has made one call, of the action, and that call
\* has sent one request to the API once it is past its fetch
OneCallOf(action) ==
    /\ InCall
    /\ inv.action = action
    /\ Downloads = <<>>
    /\ Len(ApiRequests) = (IF pc \in {"sent", "done"} THEN 1 ELSE 0)
    /\ \A i \in 1..Len(ApiRequests) :
          \A fields \in Carried(ApiRequests[i]) : fields[1] = <<<<"action">>, action>>

\* a comment text or a checklist item was given
HasContent(args) ==
    \/ args.text.some /\ args.text.v # <<>>
    \/ args.checklist.some /\ args.checklist.v # <<>>

\* C23: post_comment invoked with no text (absent or empty) and no checklist
\* item returns an error result without any request to the API; invoked with
\* one of them it makes exactly one post_comment call
C23_CommentNeedsTextOrChecklist ==
    Handling("post_comment") =>
        IF HasContent(tool.args)
        THEN OneCallOf(<<"post_comment">>) /\ (result # Pending => pc = "done")
        ELSE ErrorResult /\ NothingSent

\* post_comment was refused for an empty text and an empty checklist
C23_Witness ==
    /\ Handling("post_comment")
    /\ tool.args.text = Some(<<>>)
    /\ tool.args.checklist = Some(<<>>)
    /\ ErrorResult
    /\ NothingSent

\* the parameters a cost query is filtered by
FilterParameters ==
    {<<"id_project">>, <<"id_task">>, <<"datestart">>, <<"dateend">>, <<"filter">>}

\* the fields hold a filter: one of the filter parameters with a value that
\* is not blank
Filtered(fields) ==
    \E k \in 1..Len(fields) :
        fields[k][1] \in FilterParameters /\ Trim(fields[k][2]) # <<>>

\* none of projectId, taskId, startDate, endDate and filter was given
Unfiltered(args) ==
    \A f \in {"projectId", "taskId", "startDate", "endDate", "filter"} :
        ~args[f].some \/ args[f].v = <<>>

\* C24: get_costs and get_costs_total invoked with none of projectId, taskId,
\* startDate, endDate and filter return an error result without any request
\* to the API, and no cost query is sent without a filter
C24_NoUnfilteredCostQuery ==
    (Handling("get_costs") \/ Handling("get_costs_total")) =>
        /\ Unfiltered(tool.args) => ErrorResult /\ NothingSent
        /\ \A i \in 1..Len(Outgoing) :
              \A fields \in Carried(Outgoing[i]) : Filtered(fields)

\* the request that has just been handed to fetch
Leaving == IF pc \in {"download", "sent"} THEN <<Last(http)>> ELSE <<>>

\* the texts of a request: its URL, its query string, the values of its
\* headers, and its body or the names, values, filenames and types of its parts
Texts(request) ==
    {request.url, request.search}
    \cup {request.headers[h] : h \in DOMAIN request.headers}
    \cup (IF request.body.kind = "urlencoded" THEN {request.body.text} ELSE {})
    \cup (IF request.body.kind = "multipart"
          THEN UNION {IF part.kind = "field" THEN {part.name, part.value}
                      ELSE {part.name, part.filename, part.type} :
                      part \in {request.body.parts[k] :
                                   k \in 1..Len(request.body.parts)}}
          ELSE {})

\* a text of the request holds the secret; a digest is one chunk of its own,
\* so the key a digest was computed from does not count
Holds(request, secret) == \E t \in Texts(request) : Contains(t, secret)

\* C26: no request holds the API key; a request to the API has no
\* Authorization header and does not hold the bearer token; a request to an
\* attachment source is a bare GET of the sourceUrl of the attachment being
\* resolved, with the bearer token as its only header when there is one: no
\* query string, no body, no hash and no parameter of the call
C26_SecretsStayConfined ==
    \A i \in 1..Len(Leaving) :
        LET request == Leaving[i]
            token == config.slackBotToken
        IN  /\ ~Holds(request, config.apiKey)
            /\ request.target \in {"api", "download"}
            /\ request.target = "api" =>
                  /\ "Authorization" \notin DOMAIN request.headers
                  /\ token.some => ~Holds(request, token.v)
                  /\ HashOf(request) # config.apiKey
            /\ request.target = "download" =>
                  /\ IsRemote(AttachmentList[idx])
                  /\ request =
                        [target |-> "download", method |-> "GET",
                         url |-> AttachmentList[idx].sourceUrl.v, search |-> <<>>,
                         headers |-> IF token.some
                                     THEN [h \in {"Authorization"} |->
                                              <<"Bearer", " ">> \o token.v]
                                     ELSE [h \in {} |-> <<>>],
                         body |-> [kind |-> "none"]]

\* a call of a client with a bearer token sends its request to the API after a
\* download that carried the token
C26_Witness ==
    /\ pc = "sent"
    /\ config.slackBotToken.some
    /\ Downloads # <<>>
    /\ Holds(Downloads[1], config.slackBotToken.v)
    /\ Last(http).target = "api"
    /\ Last(http).body.kind = "multipart"
    /\ GivenEntries # <<>>

\* the attachment resolution of the call has failed
ResolutionFailed ==
    CallEnded /\ ApiRequests = <<>> /\ Len(payloads) < Len(AttachmentList)

\* the number of attachments the call has begun with: those it has resolved,
\* and the one it is downloading or has failed on
Begun ==
    Len(payloads) + (IF pc = "download" \/ ResolutionFailed THEN 1 ELSE 0)

\* C27: the downloads of a call are those of the attachments given by
\* sourceUrl among the ones it has begun with, in list order; a download is
\* issued only when every attachment before its own is resolved and every
\* earlier download has succeeded, one download being outstanding at most;
\* after the attachment that fails nothing is downloaded
C27_DownloadsOneByOne ==
    InCall =>
        /\ Begun <= Len(AttachmentList)
        /\ LET remote == SelectSeq(SubSeq(AttachmentList, 1, Begun), IsRemote)
           IN  /\ Len(Downloads) = Len(remote)
               /\ \A k \in 1..Len(remote) : Downloads[k].url = remote[k].sourceUrl.v
        /\ Len(fetched) = Len(Downloads) - (IF pc = "download" THEN 1 ELSE 0)
        /\ \A k \in 1..(Len(fetched) - 1) : DownloadOk(fetched[k])
        /\ \A m \in 1..Len(payloads) :
              payloads[m].filename = AttachmentList[m].filename
        /\ pc = "download" =>
              /\ IsRemote(AttachmentList[Len(payloads) + 1])
              /\ \A k \in 1..Len(fetched) : DownloadOk(fetched[k])
        /\ (fetched # <<>> /\ ~DownloadOk(Last(fetched))) => ResolutionFailed

\* the first of two downloads failed and the second attachment, also given by
\* sourceUrl, was not downloaded
C27_Witness ==
    /\ ResolutionFailed
    /\ Len(AttachmentList) = 2
    /\ IsRemote(AttachmentList[1]) /\ IsRemote(AttachmentList[2])
    /\ Len(fetched) = 1 /\ ~DownloadOk(fetched[1])
    /\ Len(Downloads) = 1

\* the pairs the receiver reads from the query string of a request
QueryFields(request) == ParseUrlEncoded(request.search)

\* the pairs the receiver reads from the fields of a multipart form
FormFields(request) ==
    LET fields == SelectSeq(request.body.parts, LAMBDA part : part.kind = "field")
    IN  [k \in 1..Len(fields) |-> <<fields[k].name, fields[k].value>>]

\* C28: a request with attachments carries the signed parameters twice, in
\* its query string and in the fields of its multipart form, the same pairs
\* in the same order with the same hash; a request without attachments
\* carries them once, in its query string or in its urlencoded body
C28_SignedFieldsTwiceWithFiles ==
    \A i \in 1..Len(Outgoing) :
        LET request == Outgoing[i]
        IN  IF AttachmentList # <<>>
            THEN /\ request.body.kind = "multipart"
                 /\ request.search # <<>>
                 /\ QueryFields(request) = FormFields(request)
                 /\ Last(FormFields(request)) = <<<<"hash">>, HashOf(request)>>
            ELSE /\ request.body.kind \in {"none", "urlencoded"}
                 /\ request.search # <<>> <=> request.body.kind = "none"
                 /\ Cardinality(Carried(request)) = 1

\* a multipart request carries action, two parameters and the hash both in its
\* query string and in its form
C28_Witness ==
    /\ Outgoing # <<>>
    /\ Outgoing[1].body.kind = "multipart"
    /\ Len(QueryFields(Outgoing[1])) >= 4
    /\ QueryFields(Outgoing[1]) = FormFields(Outgoing[1])

\* the handler in progress is post_task invoked with at least one attachment
PostTaskWithFiles ==
    /\ Handling("post_task")
    /\ tool.args.attachments.some
    /\ tool.args.attachments.v # <<>>

\* C29: a request a tool or resource handler sends to the API is not a GET
\* exactly when the handler is post_task invoked with at least one
\* attachment; every other request is a GET without body whose query string
\* holds action, every parameter of the call and the hash
C29_OnlyPostTaskWithFilesPosts ==
    \A i \in 1..Len(Outgoing) :
        ~Handling("none") =>
            LET request == Outgoing[i]
            IN  /\ request.method # "GET" <=> PostTaskWithFiles
                /\ request.method = "GET" =>
                      /\ request.body.kind = "none"
                      /\ Front(QueryFields(request)) =
                            ExpectedQuery(inv.action, EnumerationOrder(GivenEntries))
                      /\ Last(QueryFields(request))[1] = <<"hash">>

\* post_task without attachments and post_comment with a checklist have sent
\* their parameters by GET
C29_Witness ==
    /\ Outgoing # <<>>
    /\ Outgoing[1].method = "GET"
    /\ \/ Handling("post_task") /\ ~PostTaskWithFiles /\ tool.args.tags.some
       \/ Handling("post_comment") /\ tool.args.checklist = Some(<< <<"a">>, <<"b">> >>)
    /\ Len(QueryFields(Outgoing[1])) >= 5

\* the bytes the base64 data of a tool attachment stands for, none without data
InlineBytes(attachment) ==
    IF attachment.data.some THEN Base64Decode(attachment.data.v) ELSE <<>>

\* an attachment of the tool that supplies both base64 data with bytes in it
\* and a sourceUrl
SuppliesBoth(attachment) ==
    /\ InlineBytes(attachment) # <<>>
    /\ attachment.sourceUrl.some /\ attachment.sourceUrl.v # <<>>

\* the text says that an attachment defines both data and sourceUrl
SaysBothSources(text) ==
    Contains(text, <<"\" cannot define both data and sourceUrl.">>)

\* the files of a multipart request, in their order
FilesOf(request) ==
    IF request.body.kind = "multipart"
    THEN SelectSeq(request.body.parts, LAMBDA part : part.kind = "file")
    ELSE <<>>

\* C30: an attachment of post_task that supplies both base64 data and a
\* sourceUrl is forwarded to the client as inline bytes without sourceUrl,
\* under the field attach[i] of its 0-based position i: the both-sources error
\* of the client is never raised, nothing is downloaded for it, the request
\* carries its inline bytes, and an invocation whose attachments all supply
\* both fails only if the API request does
C30_BothSourcesSentInline ==
    (Handling("post_task") /\ tool.args.attachments.some) =>
        LET given == tool.args.attachments.v
            both == {i \in 1..Len(given) : SuppliesBoth(given[i])}
        IN  /\ ErrorResult => ~SaysBothSources(result.text)
            /\ outcome.kind = "thrown" => ~SaysBothSources(outcome.message)
            /\ Len(Downloads) <= Cardinality({i \in 1..Len(given) : ~given[i].data.some})
            /\ InCall =>
                  \A i \in both :
                      /\ AttachmentList[i].field = <<"attach", "[", ToString(i - 1), "]">>
                      /\ AttachmentList[i].data = Some(InlineBytes(given[i]))
                      /\ ~AttachmentList[i].sourceUrl.some
            /\ \A k \in 1..Len(Outgoing) :
                  /\ Len(FilesOf(Outgoing[k])) = Len(given)
                  /\ \A i \in both :
                        /\ FilesOf(Outgoing[k])[i].name =
                              <<"attach", "[", ToString(i - 1), "]">>
                        /\ FilesOf(Outgoing[k])[i].filename = given[i].filename
                        /\ FilesOf(Outgoing[k])[i].data = InlineBytes(given[i])
            /\ (both = 1..Len(given) /\ given # <<>>) =>
                  /\ InCall /\ ~ResolutionFailed /\ http = ApiRequests
                  /\ result # Pending => received.some
                  /\ pc \in {"sent", "done"} => Len(ApiRequests) = 1

\* post_task was invoked with an inline attachment and, second, one that
\* supplies both; its request is sent with the inline bytes of the second
\* under attach[1]
C30_Witness ==
    /\ Handling("post_task")
    /\ tool.args.attachments.some
    /\ Len(tool.args.attachments.v) = 2
    /\ ~SuppliesBoth(tool.args.attachments.v[1])
    /\ SuppliesBoth(tool.args.attachments.v[2])
    /\ Outgoing # <<>>
    /\ FilesOf(Outgoing[1])[2].name = <<"attach", "[", "1", "]">>
    /\ FilesOf(Outgoing[1])[2].data = <<3>>
    /\ Downloads = <<>>


====
